---- MODULE Spec2Model ----
(***************************************************************************)
(* A model of the phira-mp server's session-and-room coordinator           *)
(* (phira-mp-server: room.rs, session.rs, server.rs), of the framing       *)
(* under it (phira-mp-common: lib.rs, bin.rs) and of the client library    *)
(* (phira-mp-client: lib.rs).                                              *)
(*                                                                         *)
(* A command handler, the reaper's dangle and the grace timer are          *)
(* sequences of steps.  A step is one critical section of the code: what   *)
(* happens under one lock acquisition, one atomic store or one broadcast.  *)
(* Each step is an operator from the server state s and the task t to the  *)
(* state after the step; pc[t] is the position of task t in its handler.   *)
(*                                                                         *)
(* Spec, SpecGame    whole handlers, one after the other (Run)             *)
(* SpecRace          CreateRoom, JoinRoom and LeaveRoom of two users, one  *)
(*                   step of one handler at a time                         *)
(* SpecRound         the same with the commands of a round of play         *)
(* SpecTimer         one user's session, its dangle and its grace timer,   *)
(*                   one step at a time                                    *)
(* SpecJoin          joins to a room one seat short of ROOM_MAX_USERS      *)
(* SpecSession       connections: accept, Ping, Authenticate, the reaper   *)
(* SpecWire          one Stream: its receive task, its send task, its peer *)
(* SpecUleb          BinaryReader::uleb on a chain of bytes                *)
(* SpecLocks         the tasks as sequences of lock operations             *)
(* SpecClient        clients: rcall, the dispatcher and the mirror, over   *)
(*                   whole handlers                                        *)
(*                                                                         *)
(* A user and a room are named by their ids: an id names one object at a   *)
(* time.  A User object is gone when it is in neither the user registry    *)
(* nor a session and no task holds it (SysDrop); a Room object is gone     *)
(* when it is in neither the room registry nor held by a user or a task    *)
(* (Rest), and only then is its id created again (Blocked).                *)
(***************************************************************************)
EXTENDS Integers, Sequences, FiniteSets, TLC

\* ---------------------------------------------------------------- bounds
\* Users of the membership specification.
NUsers == 2
\* Users of the game specification.
NPlayers == 2
\* Room ids that CreateRoom / JoinRoom name.
NRooms == 2
\* Record ids the score collaborator knows.
MaxRecord == 2
\* Chart ids the chart collaborator knows.
MaxChart == 1
\* Connections the listener accepts.
NConns == 2

\* ------------------------------------------------------ program constants
ROOM_MAX_USERS == 8

Actors == 1..NUsers
Players == 1..NPlayers
RoomIds == 1..NRooms
RecordIds == 1..MaxRecord
ChartIds == 1..MaxChart
Conns == 1..NConns
NoUser == 0
NoRoom == 0
\* The server-wide allow-list read by User::can_monitor.
MonitorIds == {1}

\* A task is a session's handler (task u serves user u) or the reaper's
\* dangle / grace timer acting on user u (task SysTask(u)).
SysTask(u) == 0 - u
TUser(t) == IF t < 0 THEN 0 - t ELSE t
IsSys(t) == t < 0

VARIABLES
    rooms,      \* ServerState.rooms: the ids in the room registry
    room,       \* the Room object of each id
    users,      \* ServerState.users: the ids in the user registry
    uroom,      \* User.room
    umonitor,   \* User.monitor
    usession,   \* TRUE iff User.session upgrades to a session of the registry
    dmark,      \* TRUE iff a grace timer holding User.dangle_mark is pending
    pc,         \* position of each task
    cmd,        \* the command a task is handling
    loc,        \* a task's local variables
    reply,      \* the response the handler returns
    out,        \* the frames the handler has broadcast so far
    pre,        \* the shared state when the handler started
    conn,       \* each connection: its Session::new, its handler closure, its watchdog
    lost,       \* the ids in the lost_con channel, oldest first
    wire,       \* one framed Stream: its socket, its receive and its send task
    sync,       \* the tasks as users of the locks: what each runs and where it is
    client      \* the Client of each user: its calling task, its dispatcher, its mirror

vars == <<rooms, room, users, uroom, umonitor, usession, dmark,
          pc, cmd, loc, reply, out, pre, conn, lost, wire, sync, client>>

\* The server state as one value, for the step operators.
State == [rooms |-> rooms, room |-> room, users |-> users, uroom |-> uroom,
          umonitor |-> umonitor, usession |-> usession, dmark |-> dmark,
          pc |-> pc, cmd |-> cmd, loc |-> loc, reply |-> reply, out |-> out,
          pre |-> pre, conn |-> conn, lost |-> lost, wire |-> wire,
          sync |-> sync, client |-> client]

Becomes(s) ==
    /\ rooms' = s.rooms /\ room' = s.room /\ users' = s.users
    /\ uroom' = s.uroom /\ umonitor' = s.umonitor /\ usession' = s.usession
    /\ dmark' = s.dmark /\ pc' = s.pc /\ cmd' = s.cmd /\ loc' = s.loc
    /\ reply' = s.reply /\ out' = s.out /\ pre' = s.pre
    /\ conn' = s.conn /\ lost' = s.lost /\ wire' = s.wire /\ sync' = s.sync
    /\ client' = s.client

UserIds == DOMAIN uroom
Tasks == DOMAIN pc

\* ---------------------------------------------------------------- helpers
SeqToSet(q) == {q[i] : i \in 1..Len(q)}

Remove(q, u) == SelectSeq(q, LAMBDA x : x # u)

IndexOf(q, u) == IF u \in SeqToSet(q)
                 THEN CHOOSE i \in 1..Len(q) : q[i] = u /\ \A j \in 1..(i-1) : q[j] # u
                 ELSE 0

\* A function as an explicit table of its values (f itself, for TLC).
Table(f) == f @@ <<>>

NoResults(ids) == Table([u \in ids |-> 0])

\* Room::new.  Two fields record what the present members were sent in the
\* round under way: told, those Message::StartPlaying went to, and early,
\* those ChangeState(Playing) went to without it.  cancelled records that the
\* host's CancelReady has returned the room to SelectChart and neither
\* WaitForReady nor Playing has been written since.
NewRoom(host, ids) ==
    [host |-> host, state |-> "SelectChart",
     started |-> {}, results |-> NoResults(ids), aborted |-> {},
     live |-> FALSE, locked |-> FALSE, cycle |-> FALSE,
     users |-> IF host = NoUser THEN <<>> ELSE <<host>>,
     monitors |-> <<>>, chart |-> 0, told |-> {}, early |-> {}, cancelled |-> FALSE]

\* A Room object nobody holds.
NoRoomObj(ids) == NewRoom(NoUser, ids)

NoCmd == [kind |-> "none", id |-> 0, flag |-> FALSE, player |-> 0]
NoLoc == [room |-> NoRoom, host |-> NoUser, new |-> NoUser]
NoPre == [set |-> FALSE]

\* A connection the listener has not accepted yet.  Once accepted:
\*   st        "accepting": Session::new waits on rx, Server::accept holds
\*             sessions.write(); "open": the Session is built; "failed":
\*             Session::new returned Err and dropped the Stream
\*   recv      the Stream's receive task is alive and calls the handler
\*   tx        the oneshot sender the handler closure captured: "some",
\*             "sent" (the User went to Session::new) or "gone" (dropped)
\*   waiting   waiting_for_authenticate
\*   panicked  the handler's panicked flag
\*   user      Session.user
\*   listed    the Session is in ServerState.sessions
\*   current   User.session points to this Session
\*   answer    what the last call of the handler handed to send_tx
\*   watchdog  the heartbeat task has reported the connection and ended
\*   reaped    how often the reaper took the Session off the registry
\*   dangled   how often the reaper called dangle for the Session
NoConn == [st |-> "none", recv |-> FALSE, tx |-> "some", waiting |-> TRUE,
           panicked |-> FALSE, user |-> NoUser, listed |-> FALSE, current |-> FALSE,
           answer |-> <<>>, watchdog |-> FALSE, reaped |-> 0, dangled |-> 0]

\* A Stream that is not looked at.  Otherwise:
\*   input     the bytes the peer has sent and the receive task has not read
\*   recv      the receive task: "head" (reading a length prefix), "check"
\*             (prefix read), "body" (reading the payload), "failed" (it
\*             returned an error), "ended" (it returned Ok), "aborted"; for
\*             BinaryReader alone "uleb" and "read"
\*   len       the u32 the prefix loop has computed, as the set of its 1-bits
\*   over      the value the prefix encodes exceeds the frame limit
\*   hung      the peer has closed the connection
\*   send      the send task: "running" or "aborted"
\*   outq      the frames in the send channel
\*   wfail     a write has failed
\*   rejected, bigpassed, latewrite, latedispatch: what has happened so far
\*             (a frame was rejected; the payload of a frame whose prefix
\*             encodes more than the limit went to the handler; a frame was
\*             written after the receive task had failed; a frame went to the
\*             handler after a write had failed)
\*   result    what BinaryReader::uleb returned
NoWire == [input |-> <<>>, recv |-> "none", len |-> {}, over |-> FALSE, hung |-> FALSE,
           send |-> "none", outq |-> 0, wfail |-> FALSE, rejected |-> FALSE,
           bigpassed |-> FALSE, latewrite |-> FALSE, latedispatch |-> FALSE,
           result |-> [status |-> "none", bits |-> {}]]

\* The tasks when their locks are not looked at.  Otherwise:
\*   prog      for each task the operations on locks it has still to do,
\*             the next one first (empty: the task is not running)
\*   has       for each task the locks it holds, each with its mode
\*   sent      what has been passed between Session::new and the handler of
\*             its connection: "tx" (the oneshot) and "inited" (the Notify)
NoSync == [prog |-> <<>>, has |-> <<>>, sent |-> {}]

\* The clients when they are not looked at.
NoClients == <<>>

\* a bool on the wire
BoolArg(b) == IF b THEN 1 ELSE 0

\* Room::broadcast: the recipients are users(), then monitors().
Recipients(rm) == rm.users \o rm.monitors

Frame(s, kind, r, arg) ==
    [kind |-> kind, room |-> r, arg |-> arg, to |-> Recipients(s.room[r])]

\* a frame sent to one user with User::try_send
Private(kind, r, arg, u) == [kind |-> kind, room |-> r, arg |-> arg, to |-> <<u>>]

\* Room::on_state_change: the ChangeState frame of
\* InternalRoomState::to_client (the chart id rides with SelectChart)
StateFrame(s, r) ==
    CASE s.room[r].state = "SelectChart" ->
           Frame(s, "ChangeState_SelectChart", r, s.room[r].chart)
      [] s.room[r].state = "WaitForReady" ->
           Frame(s, "ChangeState_WaitingForReady", r, 0)
      [] s.room[r].state = "Playing" ->
           Frame(s, "ChangeState_Playing", r, 0)

\* a host test that forgets to compare the ids: C11 must fail with it
CheckHostAnyMember(rm, u) == rm.host # NoUser

\* Room::check_host
CheckHost(rm, u) == rm.host # NoUser /\ rm.host = u

\* User::can_monitor
CanMonitor(u) == u \in MonitorIds

Snapshot(s) == [set |-> TRUE, rooms |-> s.rooms, room |-> s.room, users |-> s.users,
                uroom |-> s.uroom, umonitor |-> s.umonitor]

\* ------------------------------------------------------- task bookkeeping
Goto(s, t, label) == [s EXCEPT !.pc[t] = label]

\* The handler returns ServerCommand::X(res).
Return(s, t, res) == [s EXCEPT !.pc[t] = "done", !.reply[t] = res]

Emit(s, t, frames) == [s EXCEPT !.out[t] = @ \o frames]

\* Room::on_state_change: ChangeState(client_room_state) to every member
OnStateChange(s, t) ==
    LET r == s.loc[t].room
        s1 == Emit(s, t, <<StateFrame(s, r)>>)
    IN IF s.room[r].state = "Playing"
       THEN [s1 EXCEPT !.room[r].early =
                          @ \cup (SeqToSet(Recipients(s.room[r])) \ s.room[r].told)]
       ELSE s1

\* process(user, cmd) is entered (session.rs 264-267).
Begin(s, t, c, label) ==
    [s EXCEPT !.pc[t] = label, !.cmd[t] = c, !.loc[t] = NoLoc, !.reply[t] = "none",
              !.out[t] = <<>>, !.pre[t] = Snapshot(s)]

\* When the last Arc<Room> is dropped the Room object is gone.
Referenced(s, r) ==
    \/ \E u \in DOMAIN s.uroom : s.uroom[u] = r
    \/ \E t \in DOMAIN s.pc : s.loc[t].room = r

\* What the caller of check_all_ready / on_user_leave does next: a command
\* handler answers Ok(()), the reaper's dangle and the grace timer end.
Ret(s, t) == IF IsSys(t) THEN Goto(s, t, "sys_drop") ELSE Return(s, t, "ok")

\* ------------------------------------------------- ClientCommand::CreateRoom
CreateCmd(id) == [kind |-> "CreateRoom", id |-> id, flag |-> FALSE, player |-> 0]

\* let mut room_guard = user.room.write().await; if room_guard.is_some() ..
CreateGuard(s, t) ==
    IF s.uroom[TUser(t)] # NoRoom
    THEN Return(s, t, "err_already_in_room")
    ELSE Goto(s, t, "create_insert")

\* a registry lookup that never finds the id: C5 must fail with it
IdNeverOccupied(registry, id) == FALSE

\* Entry::Occupied(_)
IdOccupied(registry, id) == id \in registry

\* under server.rooms.write(): the entry check, the insert and the
\* CreateRoom message
CreateInsert(s, t) ==
    LET id == s.cmd[t].id
        u == TUser(t)
    IN IF IdOccupied(s.rooms, id)
       THEN Return(s, t, "err_create_id_occupied")
       ELSE LET s1 == [s EXCEPT !.rooms = @ \cup {id},
                                !.room[id] = NewRoom(u, DOMAIN s.uroom),
                                !.loc[t].room = id]
            IN Goto(Emit(s1, t, <<Frame(s1, "CreateRoom", id, u)>>), t, "create_set")

\* *room_guard = Some(room); Ok(())
CreateSet(s, t) ==
    Return([s EXCEPT !.uroom[TUser(t)] = s.loc[t].room], t, "ok")

\* --------------------------------------------------- ClientCommand::JoinRoom
JoinCmd(id, monitor) == [kind |-> "JoinRoom", id |-> id, flag |-> monitor, player |-> 0]

\* let mut room_guard = user.room.write().await; if room_guard.is_some() ..
JoinGuard(s, t) ==
    IF s.uroom[TUser(t)] # NoRoom
    THEN Return(s, t, "err_already_in_room")
    ELSE Goto(s, t, "join_lookup")

\* user.server.rooms.read().await.get(&id)
JoinLookup(s, t) ==
    IF s.cmd[t].id \notin s.rooms
    THEN Return(s, t, "err_room_not_found")
    ELSE Goto([s EXCEPT !.loc[t].room = s.cmd[t].id], t, "join_locked")

\* a join that does not look at the lock: C12 must fail with it
JoinLockedIgnored(s, t) == Goto(s, t, "join_state")

\* room.locked.load(..)
JoinLocked(s, t) ==
    IF s.room[s.loc[t].room].locked
    THEN Return(s, t, "err_join_room_locked")
    ELSE Goto(s, t, "join_state")

\* matches!(*room.state.read().await, SelectChart), then can_monitor
JoinState(s, t) ==
    IF s.room[s.loc[t].room].state # "SelectChart"
    THEN Return(s, t, "err_join_game_ongoing")
    ELSE IF s.cmd[t].flag /\ ~CanMonitor(TUser(t))
    THEN Return(s, t, "err_join_cant_monitor")
    ELSE Goto(s, t, "join_add")

\* a capacity test that is off by one: C4 must fail with it
RoomFullOffByOne(list) == Len(list) > ROOM_MAX_USERS

\* guard.len() >= ROOM_MAX_USERS
RoomFull(list) == Len(list) >= ROOM_MAX_USERS

\* Room::add_user: the room after the call, and whether it returned true
\* (the Weak of a dropped user is already out of the lists, see Forget)
AddUser(rm, u, monitor) ==
    IF monitor
    THEN [ok |-> TRUE, room |-> [rm EXCEPT !.monitors = Append(@, u)]]
    ELSE IF RoomFull(rm.users)
    THEN [ok |-> FALSE, room |-> rm]
    ELSE [ok |-> TRUE, room |-> [rm EXCEPT !.users = Append(@, u)]]

\* if !room.add_user(Arc::downgrade(&user), monitor).await { bail!(..) }
JoinAdd(s, t) ==
    LET r == s.loc[t].room
        res == AddUser(s.room[r], TUser(t), s.cmd[t].flag)
    IN IF res.ok
       THEN Goto([s EXCEPT !.room[r] = res.room], t, "join_announce")
       ELSE Return(s, t, "err_join_room_full")

\* a join that stores the monitor argument into live instead of or-ing it:
\* C14 must fail with it
JoinAnnounceStoresLive(s, t) ==
    LET r == s.loc[t].room
        u == TUser(t)
        s1 == [s EXCEPT !.umonitor[u] = s.cmd[t].flag,
                        !.room[r].live = s.cmd[t].flag]
    IN Goto(Emit(s1, t, <<Frame(s1, "OnJoinRoom", r, u), Frame(s1, "JoinRoom", r, u)>>),
            t, "join_set")

\* user.monitor.store(monitor); room.live.fetch_or(true) for a monitor;
\* broadcast OnJoinRoom, send Message::JoinRoom
JoinAnnounce(s, t) ==
    LET r == s.loc[t].room
        u == TUser(t)
        s1 == [s EXCEPT !.umonitor[u] = s.cmd[t].flag,
                        !.room[r].live = @ \/ s.cmd[t].flag]
    IN Goto(Emit(s1, t, <<Frame(s1, "OnJoinRoom", r, u), Frame(s1, "JoinRoom", r, u)>>),
            t, "join_set")

\* *room_guard = Some(Arc::clone(&room)); Ok(JoinRoomResponse {..})
JoinSet(s, t) ==
    Return([s EXCEPT !.uroom[TUser(t)] = s.loc[t].room], t, "ok")

\* ------------------------------------------------------ Room::check_all_ready
\* .all(|it| started.contains(&it.id)) over users() chained with monitors()
AllReady(rm) == \A m \in SeqToSet(rm.users) \cup SeqToSet(rm.monitors) : m \in rm.started

\* .all(|it| results.contains_key(&it.id) || aborted.contains(&it.id)) over users()
AllPlayed(rm) == \A m \in SeqToSet(rm.users) : rm.results[m] # 0 \/ m \in rm.aborted

\* let guard = self.state.read().await; match guard.deref() { .. }
CheckAllReady(s, t) ==
    LET rm == s.room[s.loc[t].room]
    IN CASE rm.state = "WaitForReady" /\ AllReady(rm) -> Goto(s, t, "car_start_send")
         [] rm.state = "Playing" /\ AllPlayed(rm) -> Goto(s, t, "car_end_send")
         [] OTHER -> Ret(s, t)

\* self.send(Message::StartPlaying).await; self.reset_game_time().await
CarStartSend(s, t) ==
    LET r == s.loc[t].room
    IN Goto([Emit(s, t, <<Frame(s, "StartPlaying", r, 0)>>)
                EXCEPT !.room[r].told = SeqToSet(Recipients(s.room[r]))],
            t, "car_start_set")

\* InternalRoomState::Playing { results: HashMap::new(), aborted: HashSet::new() }
EnterPlaying(rm) ==
    [rm EXCEPT !.state = "Playing", !.started = {},
               !.results = NoResults(DOMAIN rm.results), !.aborted = {},
               !.cancelled = FALSE]

\* *self.state.write().await = InternalRoomState::Playing { .. }
CarStartSet(s, t) ==
    Goto([s EXCEPT !.room[s.loc[t].room] = EnterPlaying(@)], t, "car_start_notify")

\* self.on_state_change().await
CarStartNotify(s, t) ==
    Ret(OnStateChange(s, t), t)

\* self.send(Message::GameEnd).await
CarEndSend(s, t) ==
    Goto(Emit(s, t, <<Frame(s, "GameEnd", s.loc[t].room, 0)>>), t, "car_end_set")

\* InternalRoomState::SelectChart
EnterSelectChart(rm) ==
    [rm EXCEPT !.state = "SelectChart", !.started = {},
               !.results = NoResults(DOMAIN rm.results), !.aborted = {}, !.told = {},
               !.early = {}]

\* *self.state.write().await = InternalRoomState::SelectChart
CarEndSet(s, t) ==
    Goto([s EXCEPT !.room[s.loc[t].room] = EnterSelectChart(@)], t, "car_cycle")

\* if self.is_cycle() { let host = Weak::clone(&*self.host.read().await); ..
CarCycle(s, t) ==
    IF s.room[s.loc[t].room].cycle
    THEN Goto([s EXCEPT !.loc[t].host = s.room[s.loc[t].room].host], t, "car_cycle_pick")
    ELSE Goto(s, t, "car_end_notify")

\* a rotation that stops at the end of the list: C24 must fail with it
NextIndexNoWrap(list, host) ==
    IF IndexOf(list, host) = 0 \/ IndexOf(list, host) = Len(list)
    THEN Len(list)
    ELSE IndexOf(list, host) + 1

\* users.iter().position(|it| host.ptr_eq(..)).map(|it| (it + 1) % users.len())
\*      .unwrap_or_default(), as a 1-based index into a non-empty list
NextIndex(list, host) ==
    IF IndexOf(list, host) = 0 THEN 1 ELSE (IndexOf(list, host) % Len(list)) + 1

\* the user a task has picked as the next host
Chosen(s, t, n) == [s EXCEPT !.loc[t].new = n]

\* let users = self.users().await; .. users.into_iter().nth(index).unwrap()
CarCyclePick(s, t) ==
    LET list == s.room[s.loc[t].room].users
    IN IF list = <<>>
       THEN Goto(s, t, "panicked")
       ELSE Goto(Chosen(s, t, list[NextIndex(list, s.loc[t].host)]), t, "car_cycle_set")

\* *self.host.write().await = Arc::downgrade(&new_host)
CarCycleSet(s, t) ==
    Goto([s EXCEPT !.room[s.loc[t].room].host = s.loc[t].new], t, "car_cycle_send")

\* NewHost to the room, ChangeHost(false) to the old host, ChangeHost(true)
\* to the new one
CarCycleSend(s, t) ==
    LET r == s.loc[t].room
    IN Goto(Emit(s, t, <<Frame(s, "NewHost", r, s.loc[t].new)>>
                       \o (IF s.loc[t].host # NoUser
                           THEN <<Private("ChangeHost", r, 0, s.loc[t].host)>>
                           ELSE <<>>)
                       \o <<Private("ChangeHost", r, 1, s.loc[t].new)>>),
            t, "car_end_notify")

\* self.on_state_change().await
CarEndNotify(s, t) ==
    Ret(OnStateChange(s, t), t)

\* ------------------------------------------------------- Room::on_user_leave
\* self.send(Message::LeaveRoom { .. }).await
OulSend(s, t) ==
    Goto(Emit(s, t, <<Frame(s, "LeaveRoom", s.loc[t].room, TUser(t))>>), t, "oul_clear")

\* *user.room.write().await = None
OulClear(s, t) ==
    Goto([s EXCEPT !.uroom[TUser(t)] = NoRoom], t, "oul_retain")

\* the list on_user_leave removes the user from: user.monitor.load(..)
LeaveFromMonitors(monitorFlag) == monitorFlag

\* (if user.monitor { &self.monitors } else { &self.users }).retain(id != user.id)
Retain(rm, u, monitorFlag) ==
    LET rm2 == IF LeaveFromMonitors(monitorFlag)
               THEN [rm EXCEPT !.monitors = Remove(@, u)]
               ELSE [rm EXCEPT !.users = Remove(@, u)]
    IN [rm2 EXCEPT !.told = @ \cap SeqToSet(Recipients(rm2)),
                   !.early = @ \cap SeqToSet(Recipients(rm2))]

OulRetain(s, t) ==
    Goto([s EXCEPT !.room[s.loc[t].room] = Retain(@, TUser(t), s.umonitor[TUser(t)])],
         t, "oul_host")

\* if self.check_host(user).await.is_ok()
OulHost(s, t) ==
    IF CheckHost(s.room[s.loc[t].room], TUser(t))
    THEN Goto(s, t, "oul_pick")
    ELSE Goto(s, t, "car")

\* let users = self.users().await; if users.is_empty() { return true }
\* else users.choose(&mut thread_rng()): every choice is a successor
OulPick(s, t) ==
    LET list == s.room[s.loc[t].room].users
    IN IF list = <<>>
       THEN {Goto(s, t, "oul_drop")}
       ELSE {Goto(Chosen(s, t, n), t, "oul_sethost") : n \in SeqToSet(list)}

\* *self.host.write().await = Arc::downgrade(user)
OulSetHost(s, t) ==
    Goto([s EXCEPT !.room[s.loc[t].room].host = s.loc[t].new], t, "oul_newhost")

\* self.send(Message::NewHost { .. }); user.try_send(ChangeHost(true))
OulNewHost(s, t) ==
    LET r == s.loc[t].room
    IN Goto(Emit(s, t, <<Frame(s, "NewHost", r, s.loc[t].new),
                         Private("ChangeHost", r, 1, s.loc[t].new)>>), t, "car")

\* on_user_leave returned true: server.rooms.write().await.remove(&room.id)
OulDrop(s, t) ==
    Ret([s EXCEPT !.rooms = @ \ {s.loc[t].room}], t)

\* ---------------------------------------------------------------- get_room!
\* where a command goes once it has its room
Entry(kind) ==
    CASE kind = "LeaveRoom" -> "oul_send"
      [] kind = "LockRoom" -> "lock"
      [] kind = "CycleRoom" -> "cycle"
      [] kind = "SelectChart" -> "select"
      [] kind = "RequestStart" -> "start_host"
      [] kind = "Ready" -> "ready"
      [] kind = "CancelReady" -> "cancel"
      [] kind = "Played" -> "played_fetch"
      [] kind = "Abort" -> "abort"

\* the commands that name a state pattern: get_room!(room, SelectChart)
NeedsSelectChart(kind) == kind \in {"SelectChart", "RequestStart"}

\* get_room!(room): user.room.read().await ... ok_or_else(|| anyhow!("no room"))?
\* and, with a state pattern, bail!("invalid state")
GetRoom(s, t) ==
    LET r == s.uroom[TUser(t)]
        k == s.cmd[t].kind
    IN IF r = NoRoom
       THEN Return(s, t, "err_no_room")
       ELSE IF NeedsSelectChart(k) /\ s.room[r].state # "SelectChart"
       THEN Return(s, t, "err_invalid_state")
       ELSE Goto([s EXCEPT !.loc[t].room = r], t, Entry(k))

LeaveCmd == [kind |-> "LeaveRoom", id |-> 0, flag |-> FALSE, player |-> 0]

\* ------------------------------------- ClientCommand::LockRoom / CycleRoom
LockCmd(lock) == [kind |-> "LockRoom", id |-> 0, flag |-> lock, player |-> 0]
CycleCmd(cycle) == [kind |-> "CycleRoom", id |-> 0, flag |-> cycle, player |-> 0]

\* room.check_host(&user).await?
HostOnly(s, t, label) ==
    IF CheckHost(s.room[s.loc[t].room], TUser(t))
    THEN Goto(s, t, label)
    ELSE Return(s, t, "err_only_host")

LockCheck(s, t) == HostOnly(s, t, "lock_store")

\* room.locked.store(lock); room.send(Message::LockRoom { lock })
LockStore(s, t) ==
    LET r == s.loc[t].room
        s1 == [s EXCEPT !.room[r].locked = s.cmd[t].flag]
    IN Return(Emit(s1, t, <<Frame(s1, "LockRoom", r, BoolArg(s.cmd[t].flag))>>), t, "ok")

CycleCheck(s, t) == HostOnly(s, t, "cycle_store")

\* room.cycle.store(cycle); room.send(Message::CycleRoom { cycle })
CycleStore(s, t) ==
    LET r == s.loc[t].room
        s1 == [s EXCEPT !.room[r].cycle = s.cmd[t].flag]
    IN Return(Emit(s1, t, <<Frame(s1, "CycleRoom", r, BoolArg(s.cmd[t].flag))>>), t, "ok")

\* ------------------------------------------------ ClientCommand::SelectChart
\* flag: whether GET /chart/{id} succeeds
SelectCmd(id, found) == [kind |-> "SelectChart", id |-> id, flag |-> found, player |-> 0]

SelectCheck(s, t) == HostOnly(s, t, "select_send")

\* the fetch, then room.send(Message::SelectChart { .. })
SelectSend(s, t) ==
    IF s.cmd[t].flag
    THEN Goto(Emit(s, t, <<Frame(s, "SelectChart", s.loc[t].room, s.cmd[t].id)>>),
              t, "select_store")
    ELSE Return(s, t, "err_fetch")

\* *room.chart.write().await = Some(res)
SelectStore(s, t) ==
    Goto([s EXCEPT !.room[s.loc[t].room].chart = s.cmd[t].id], t, "select_notify")

\* room.on_state_change().await; Ok(())
SelectNotify(s, t) ==
    Return(OnStateChange(s, t), t, "ok")

\* ----------------------------------------------- ClientCommand::RequestStart
StartCmd == [kind |-> "RequestStart", id |-> 0, flag |-> FALSE, player |-> 0]

StartHost(s, t) == HostOnly(s, t, "start_chart")

\* room.chart.read().await.is_none()
NoChart(rm) == rm.chart = 0

StartChart(s, t) ==
    IF NoChart(s.room[s.loc[t].room])
    THEN Return(s, t, "err_start_no_chart_selected")
    ELSE Goto(s, t, "start_send")

\* room.reset_game_time().await; room.send(Message::GameStart { .. })
StartSend(s, t) ==
    Goto(Emit(s, t, <<Frame(s, "GameStart", s.loc[t].room, TUser(t))>>), t, "start_set")

\* a started set that leaves the host out: C6 must fail with it
InitialStartedEmpty(u) == {}

\* std::iter::once(user.id).collect::<HashSet<_>>()
InitialStarted(u) == {u}

\* *room.state.write().await = InternalRoomState::WaitForReady { started }
StartSet(s, t) ==
    Goto([s EXCEPT !.room[s.loc[t].room] =
                     [@ EXCEPT !.state = "WaitForReady",
                               !.started = InitialStarted(TUser(t)),
                               !.results = NoResults(DOMAIN @), !.aborted = {},
                               !.told = {}, !.early = {}, !.cancelled = FALSE]],
         t, "start_notify")

\* room.on_state_change().await; then room.check_all_ready().await
StartNotify(s, t) ==
    Goto(OnStateChange(s, t), t, "car")

\* ------------------------------------- ClientCommand::Ready / CancelReady
ReadyCmd == [kind |-> "Ready", id |-> 0, flag |-> FALSE, player |-> 0]
CancelCmd == [kind |-> "CancelReady", id |-> 0, flag |-> FALSE, player |-> 0]

\* under room.state.write(): started.insert(user.id), Message::Ready
Ready(s, t) ==
    LET r == s.loc[t].room
        u == TUser(t)
    IN IF s.room[r].state = "WaitForReady"
       THEN IF u \in s.room[r].started
            THEN Return(s, t, "err_already_ready")
            ELSE LET s1 == [s EXCEPT !.room[r].started = @ \cup {u}]
                 IN Goto(Emit(s1, t, <<Frame(s1, "Ready", r, u)>>), t, "car")
       ELSE Return(s, t, "ok")

\* under room.state.write(): started.remove(&user.id); the host's cancel
\* cancels the game
CancelReady(s, t) ==
    LET r == s.loc[t].room
        u == TUser(t)
    IN IF s.room[r].state = "WaitForReady"
       THEN IF u \notin s.room[r].started
            THEN Return(s, t, "err_not_ready")
            ELSE IF CheckHost(s.room[r], u)
            THEN LET s1 == [s EXCEPT !.room[r] = [EnterSelectChart(@) EXCEPT
                                                      !.cancelled = TRUE]]
                 IN Goto(Emit(s1, t, <<Frame(s1, "CancelGame", r, u)>>), t, "cancel_notify")
            ELSE LET s1 == [s EXCEPT !.room[r].started = @ \ {u}]
                 IN Return(Emit(s1, t, <<Frame(s1, "CancelReady", r, u)>>), t, "ok")
       ELSE Return(s, t, "ok")

\* drop(guard); room.on_state_change().await
CancelNotify(s, t) ==
    Return(OnStateChange(s, t), t, "ok")

\* ------------------------------------------ ClientCommand::Played / Abort
\* player: the player field of the record GET /record/{id} returns, or
\* NoUser when the fetch fails
PlayedCmd(id, player) == [kind |-> "Played", id |-> id, flag |-> FALSE, player |-> player]
AbortCmd == [kind |-> "Abort", id |-> 0, flag |-> FALSE, player |-> 0]

\* the fetch, res.player != user.id, then room.send(Message::Played { .. })
PlayedFetch(s, t) ==
    IF s.cmd[t].player = NoUser
    THEN Return(s, t, "err_fetch")
    ELSE IF s.cmd[t].player # TUser(t)
    THEN Return(s, t, "err_invalid_record")
    ELSE Goto(Emit(s, t, <<Frame(s, "Played", s.loc[t].room, TUser(t))>>),
              t, "played_insert")

\* a Played that does not look at aborted: C40 must fail with it
PlayedInsertUnchecked(s, t) ==
    LET r == s.loc[t].room
        u == TUser(t)
    IN IF s.room[r].state = "Playing"
       THEN LET s1 == [s EXCEPT !.room[r].results[u] = s.cmd[t].id]
            IN IF s.room[r].results[u] # 0
               THEN Return(s1, t, "err_already_uploaded")
               ELSE Goto(s1, t, "car")
       ELSE Return(s, t, "ok")

\* under room.state.write(): aborted.contains, results.insert(..).is_some()
PlayedInsert(s, t) ==
    LET r == s.loc[t].room
        u == TUser(t)
    IN IF s.room[r].state = "Playing"
       THEN IF u \in s.room[r].aborted
            THEN Return(s, t, "err_aborted")
            ELSE LET s1 == [s EXCEPT !.room[r].results[u] = s.cmd[t].id]
                 IN IF s.room[r].results[u] # 0
                    THEN Return(s1, t, "err_already_uploaded")
                    ELSE Goto(s1, t, "car")
       ELSE Return(s, t, "ok")

\* under room.state.write(): results.contains_key, aborted.insert
Abort(s, t) ==
    LET r == s.loc[t].room
        u == TUser(t)
    IN IF s.room[r].state = "Playing"
       THEN IF s.room[r].results[u] # 0
            THEN Return(s, t, "err_already_uploaded")
            ELSE IF u \in s.room[r].aborted
            THEN Return(s, t, "err_aborted")
            ELSE Goto([s EXCEPT !.room[r].aborted = @ \cup {u}], t, "abort_send")
       ELSE Return(s, t, "ok")

\* room.send(Message::Abort { .. }); then room.check_all_ready().await
AbortSend(s, t) ==
    Goto(Emit(s, t, <<Frame(s, "Abort", s.loc[t].room, TUser(t))>>), t, "car")

\* ------------------------------------------------ User::dangle, grace timer
SysCmd(kind) == [kind |-> kind, id |-> 0, flag |-> FALSE, player |-> 0]

\* matches!(*guard, InternalRoomState::Playing { .. }) for the user's room
LeavesAtOnce(s, u) == s.uroom[u] # NoRoom /\ s.room[s.uroom[u]].state = "Playing"

\* User::dangle: mid-game the user is taken off the registry and leaves at
\* once; otherwise a fresh dangle mark is stored and the grace timer spawned
Dangle(s, t) ==
    LET u == TUser(t)
    IN IF LeavesAtOnce(s, u)
       THEN Goto([s EXCEPT !.users = @ \ {u}, !.loc[t].room = s.uroom[u]], t, "oul_send")
       ELSE Goto([s EXCEPT !.dmark[u] = TRUE], t, "done")

\* the timer body: if let Some(room) = room { users.remove(&self.id);
\* room.on_user_leave(..) }
Expire(s, t) ==
    LET u == TUser(t)
        s1 == [s EXCEPT !.dmark[u] = FALSE]
    IN IF s.uroom[u] # NoRoom
       THEN Goto([s1 EXCEPT !.users = @ \ {u}, !.loc[t].room = s.uroom[u]], t, "oul_send")
       ELSE Goto(s1, t, "sys_drop")

\* What is left of a room once the Weak<User> of u no longer upgrades:
\* users(), monitors() and check_host skip it.
Forget(rm, u) ==
    [rm EXCEPT !.users = Remove(@, u), !.monitors = Remove(@, u),
               !.host = IF @ = u THEN NoUser ELSE @, !.told = @ \ {u},
               !.early = @ \ {u}]

\* A Session holds its user (Session.user), and the Session lives while it
\* is in the session registry or its receive task, whose handler closure
\* holds it, is alive.
Held(s, u) ==
    \E c \in DOMAIN s.conn :
        s.conn[c].user = u /\ (s.conn[c].listed \/ s.conn[c].recv)

\* The dangle / timer task ends and drops its Arc<User>: a user that is in
\* neither the registry nor a session is gone.
SysDrop(s, t) ==
    LET u == TUser(t)
    IN IF u \notin s.users /\ ~s.usession[u] /\ ~Held(s, u)
       THEN Goto([s EXCEPT !.room = Table([r \in DOMAIN s.room |-> Forget(s.room[r], u)]),
                           !.uroom[u] = NoRoom, !.umonitor[u] = FALSE], t, "done")
       ELSE Goto(s, t, "done")

\* ------------------------------------------------------------------ stepping
\* One step of task t: the successors of s.
Step(s, t) ==
    LET p == s.pc[t]
    IN CASE p = "create_guard" -> {CreateGuard(s, t)}
         [] p = "create_insert" -> {CreateInsert(s, t)}
         [] p = "create_set" -> {CreateSet(s, t)}
         [] p = "join_guard" -> {JoinGuard(s, t)}
         [] p = "join_lookup" -> {JoinLookup(s, t)}
         [] p = "join_locked" -> {JoinLocked(s, t)}
         [] p = "join_state" -> {JoinState(s, t)}
         [] p = "join_add" -> {JoinAdd(s, t)}
         [] p = "join_announce" -> {JoinAnnounce(s, t)}
         [] p = "join_set" -> {JoinSet(s, t)}
         [] p = "get_room" -> {GetRoom(s, t)}
         [] p = "oul_send" -> {OulSend(s, t)}
         [] p = "oul_clear" -> {OulClear(s, t)}
         [] p = "oul_retain" -> {OulRetain(s, t)}
         [] p = "oul_host" -> {OulHost(s, t)}
         [] p = "oul_pick" -> OulPick(s, t)
         [] p = "oul_sethost" -> {OulSetHost(s, t)}
         [] p = "oul_newhost" -> {OulNewHost(s, t)}
         [] p = "oul_drop" -> {OulDrop(s, t)}
         [] p = "car" -> {CheckAllReady(s, t)}
         [] p = "car_start_send" -> {CarStartSend(s, t)}
         [] p = "car_start_set" -> {CarStartSet(s, t)}
         [] p = "car_start_notify" -> {CarStartNotify(s, t)}
         [] p = "car_end_send" -> {CarEndSend(s, t)}
         [] p = "car_end_set" -> {CarEndSet(s, t)}
         [] p = "car_cycle" -> {CarCycle(s, t)}
         [] p = "car_cycle_pick" -> {CarCyclePick(s, t)}
         [] p = "car_cycle_set" -> {CarCycleSet(s, t)}
         [] p = "car_cycle_send" -> {CarCycleSend(s, t)}
         [] p = "car_end_notify" -> {CarEndNotify(s, t)}
         [] p = "lock" -> {LockCheck(s, t)}
         [] p = "lock_store" -> {LockStore(s, t)}
         [] p = "cycle" -> {CycleCheck(s, t)}
         [] p = "cycle_store" -> {CycleStore(s, t)}
         [] p = "select" -> {SelectCheck(s, t)}
         [] p = "select_send" -> {SelectSend(s, t)}
         [] p = "select_store" -> {SelectStore(s, t)}
         [] p = "select_notify" -> {SelectNotify(s, t)}
         [] p = "start_host" -> {StartHost(s, t)}
         [] p = "start_chart" -> {StartChart(s, t)}
         [] p = "start_send" -> {StartSend(s, t)}
         [] p = "start_set" -> {StartSet(s, t)}
         [] p = "start_notify" -> {StartNotify(s, t)}
         [] p = "ready" -> {Ready(s, t)}
         [] p = "cancel" -> {CancelReady(s, t)}
         [] p = "cancel_notify" -> {CancelNotify(s, t)}
         [] p = "played_fetch" -> {PlayedFetch(s, t)}
         [] p = "played_insert" -> {PlayedInsert(s, t)}
         [] p = "abort" -> {Abort(s, t)}
         [] p = "abort_send" -> {AbortSend(s, t)}
         [] p = "dangle" -> {Dangle(s, t)}
         [] p = "expire" -> {Expire(s, t)}
         [] p = "sys_drop" -> {SysDrop(s, t)}

Stopped(s, t) == s.pc[t] \in {"idle", "done", "panicked"}

\* ------------------------------------------------------------ task lifetime
\* A task that is not running holds nothing.
Idle(s, t) ==
    [s EXCEPT !.pc[t] = "idle", !.cmd[t] = NoCmd, !.loc[t] = NoLoc,
              !.reply[t] = "none", !.out[t] = <<>>, !.pre[t] = NoPre]

\* What is left of a task when it has stopped, and of the frames when they
\* are sent: a stopped task holds nothing (its Arc<Room> is dropped), and a
\* Room that is neither in the registry nor held by a user or a task is
\* dropped with its last Arc.
Rest(s) ==
    LET over(t) == s.pc[t] \in {"idle", "done"}
        s1 == [s EXCEPT !.pc = Table([t \in DOMAIN s.pc |-> IF over(t) THEN "idle" ELSE s.pc[t]]),
                        !.cmd = Table([t \in DOMAIN s.pc |-> IF over(t) THEN NoCmd ELSE s.cmd[t]]),
                        !.loc = Table([t \in DOMAIN s.pc |->
                                         IF Stopped(s, t) THEN NoLoc ELSE s.loc[t]]),
                        !.reply = Table([t \in DOMAIN s.pc |->
                                           IF over(t) THEN "none" ELSE s.reply[t]]),
                        !.out = Table([t \in DOMAIN s.pc |-> <<>>]),
                        !.pre = Table([t \in DOMAIN s.pc |-> NoPre])]
    IN [s1 EXCEPT !.room = Table([r \in DOMAIN s.room |->
                                    IF r \in s1.rooms \/ Referenced(s1, r)
                                    THEN s1.room[r] ELSE NoRoomObj(DOMAIN s.uroom)])]

\* user.room.write() is held from the first line of CreateRoom / JoinRoom
\* to the end of the handler
HoldsRoomLock(s, t) ==
    s.pc[t] \in {"create_insert", "create_set", "join_lookup", "join_locked",
                 "join_state", "join_add", "join_announce", "join_set"}

\* the steps that take user.room
NeedsRoomLock(label) ==
    label \in {"create_guard", "join_guard", "get_room", "oul_clear", "dangle", "expire"}

\* A step waits for a lock another task of the same user holds, and the
\* model lets a room id be taken again only once the dropped Room object of
\* that id is gone (an id names one object).
Blocked(s, t) ==
    \/ /\ NeedsRoomLock(s.pc[t])
       /\ \E t2 \in DOMAIN s.pc : t2 # t /\ TUser(t2) = TUser(t) /\ HoldsRoomLock(s, t2)
    \/ /\ s.pc[t] = "create_insert"
       /\ s.cmd[t].id \notin s.rooms
       /\ Referenced(s, s.cmd[t].id)

\* The states task t can end in when it runs from s without interruption
\* (none when it would have to wait).
RECURSIVE Run(_, _)
Run(s, t) ==
    IF Stopped(s, t) THEN {s}
    ELSE IF Blocked(s, t) THEN {}
    ELSE UNION {Run(s2, t) : s2 \in Step(s, t)}

\* The states task t passes through when it runs from s without interruption.
RECURSIVE Visited(_, _)
Visited(s, t) ==
    {s} \cup (IF Stopped(s, t) \/ Blocked(s, t) THEN {}
              ELSE UNION {Visited(s2, t) : s2 \in Step(s, t)})

\* ------------------------------------------------- sessions (session.rs, server.rs)
\* an authentication that always inserts a new User: C18 must fail with it
SetSessionFresh(s, u) ==
    [s EXCEPT !.users = @ \cup {u}, !.usession[u] = TRUE, !.dmark[u] = FALSE,
              !.uroom[u] = NoRoom, !.umonitor[u] = FALSE]

\* Authenticate, handled to its end under server.users.write(): a user of
\* the registry gets the new session (set_session clears the dangle mark),
\* an unknown id gets a new User object.
SetSession(s, u) ==
    IF u \in s.users
    THEN [s EXCEPT !.usession[u] = TRUE, !.dmark[u] = FALSE]
    ELSE [s EXCEPT !.users = @ \cup {u}, !.usession[u] = TRUE, !.dmark[u] = FALSE,
                   !.uroom[u] = NoRoom, !.umonitor[u] = FALSE]

\* One session per user id at a time; a new User object of an id is made
\* only when the old one is gone.
CanAuthenticate(s, u) ==
    /\ ~s.usession[u]
    /\ s.pc[u] = "idle"
    /\ u \in s.users \/ s.pc[SysTask(u)] = "idle"

\* The reaper takes the session off the registry (server.rs 64); the
\* session is the user's current one, so the user dangles.
LoseSession(s, u) == [Idle(s, u) EXCEPT !.usession[u] = FALSE]

CanLose(s, u) ==
    /\ s.usession[u]
    /\ s.pc[u] \in {"idle", "panicked"}
    /\ s.pc[SysTask(u)] = "idle"

\* The grace timer wakes with its mark still the user's:
\* Arc::strong_count(&dangle_mark) > 1
TimerFires(s, u) == [s EXCEPT !.dmark[u] = FALSE]

CanExpire(s, u) == s.dmark[u] /\ s.pc[SysTask(u)] = "idle"

CanServe(s, u) == s.usession[u] /\ s.pc[u] = "idle"

\* --------------------------------------------- serial scheduling: whole handlers
\* The state in which task t has just taken up command c.
Serving(t, c, label) == Begin(State, t, c, label)

\* The reaper's dangle of user u has just started.
Dangling(u) == Begin(LoseSession(State, u), SysTask(u), SysCmd("Dangle"), "dangle")

\* The grace timer of user u has just fired.
Expiring(u) == Begin(TimerFires(State, u), SysTask(u), SysCmd("Expire"), "expire")

\* Task t runs from s0 to its end.
Whole(t, s0) == \E s2 \in Run(s0, t) : Becomes(Rest(s2))

Authenticate(u) == CanAuthenticate(State, u) /\ Becomes(SetSession(State, u))

Lost(u) == CanLose(State, u) /\ Whole(SysTask(u), Dangling(u))

Timeout(u) == CanExpire(State, u) /\ Whole(SysTask(u), Expiring(u))

CreateRoom(u, id) == CanServe(State, u) /\ Whole(u, Serving(u, CreateCmd(id), "create_guard"))

JoinRoom(u, id, monitor) ==
    CanServe(State, u) /\ Whole(u, Serving(u, JoinCmd(id, monitor), "join_guard"))

LeaveRoom(u) == CanServe(State, u) /\ Whole(u, Serving(u, LeaveCmd, "get_room"))

LockRoom(u, lock) == CanServe(State, u) /\ Whole(u, Serving(u, LockCmd(lock), "get_room"))

CycleRoom(u, cycle) == CanServe(State, u) /\ Whole(u, Serving(u, CycleCmd(cycle), "get_room"))

SelectChart(u, id, found) ==
    CanServe(State, u) /\ Whole(u, Serving(u, SelectCmd(id, found), "get_room"))

RequestStart(u) == CanServe(State, u) /\ Whole(u, Serving(u, StartCmd, "get_room"))

SendReady(u) == CanServe(State, u) /\ Whole(u, Serving(u, ReadyCmd, "get_room"))

SendCancelReady(u) == CanServe(State, u) /\ Whole(u, Serving(u, CancelCmd, "get_room"))

Played(u, id, player) ==
    CanServe(State, u) /\ Whole(u, Serving(u, PlayedCmd(id, player), "get_room"))

SendAbort(u) == CanServe(State, u) /\ Whole(u, Serving(u, AbortCmd, "get_room"))

\* ----------------------------------------------------------- initial states
\* The server after Server::from: no session, no user, no room.
Empty(ids, rids) ==
    LET tasks == ids \cup {SysTask(u) : u \in ids}
    IN [rooms |-> {}, room |-> Table([r \in rids |-> NoRoomObj(ids)]), users |-> {},
        uroom |-> Table([u \in ids |-> NoRoom]),
        umonitor |-> Table([u \in ids |-> FALSE]),
        usession |-> Table([u \in ids |-> FALSE]),
        dmark |-> Table([u \in ids |-> FALSE]),
        pc |-> Table([t \in tasks |-> "idle"]), cmd |-> Table([t \in tasks |-> NoCmd]),
        loc |-> Table([t \in tasks |-> NoLoc]), reply |-> Table([t \in tasks |-> "none"]),
        out |-> Table([t \in tasks |-> <<>>]), pre |-> Table([t \in tasks |-> NoPre]),
        conn |-> Table([c \in Conns |-> NoConn]), lost |-> <<>>,
        wire |-> NoWire, sync |-> NoSync, client |-> NoClients]

Starts(s) ==
    /\ rooms = s.rooms /\ room = s.room /\ users = s.users
    /\ uroom = s.uroom /\ umonitor = s.umonitor /\ usession = s.usession
    /\ dmark = s.dmark /\ pc = s.pc /\ cmd = s.cmd /\ loc = s.loc
    /\ reply = s.reply /\ out = s.out /\ pre = s.pre
    /\ conn = s.conn /\ lost = s.lost /\ wire = s.wire /\ sync = s.sync
    /\ client = s.client

\* ------------------------------------------ Spec: membership, whole handlers
Init == Starts(Empty(Actors, RoomIds))

Next ==
    \/ \E u \in Actors : Authenticate(u)
    \/ \E u \in Actors : Lost(u)
    \/ \E u \in Actors : Timeout(u)
    \/ \E u \in Actors, id \in RoomIds : CreateRoom(u, id)
    \/ \E u \in Actors, id \in RoomIds, monitor \in BOOLEAN : JoinRoom(u, id, monitor)
    \/ \E u \in Actors : LeaveRoom(u)

Spec == Init /\ [][Next]_vars

\* ------------------------------------------- SpecGame: one room, every command
GameRoom == 1

InitGame == Starts(Empty(Players, {GameRoom}))

NextGame ==
    \/ \E u \in Players : Authenticate(u)
    \/ \E u \in Players : Lost(u)
    \/ \E u \in Players : Timeout(u)
    \/ \E u \in Players : CreateRoom(u, GameRoom)
    \/ \E u \in Players, monitor \in BOOLEAN : JoinRoom(u, GameRoom, monitor)
    \/ \E u \in Players : LeaveRoom(u)
    \/ \E u \in Players, lock \in BOOLEAN : LockRoom(u, lock)
    \/ \E u \in Players, cycle \in BOOLEAN : CycleRoom(u, cycle)
    \/ \E u \in Players, id \in ChartIds, found \in BOOLEAN : SelectChart(u, id, found)
    \/ \E u \in Players : RequestStart(u)
    \/ \E u \in Players : SendReady(u)
    \/ \E u \in Players : SendCancelReady(u)
    \/ \E u \in Players, id \in RecordIds, player \in {NoUser} \cup Players : Played(u, id, player)
    \/ \E u \in Players : SendAbort(u)

SpecGame == InitGame /\ [][NextGame]_vars

\* Every user of ids has authenticated.
Online(ids, rids) ==
    [Empty(ids, rids) EXCEPT !.users = ids, !.usession = Table([u \in ids |-> TRUE])]

\* ------------------------------------- concurrent scheduling: one step at a time
\* Task t takes the step it is at; the specifications below name the step
\* by its label, one disjunct for each.
Advance(t) ==
    /\ ~Blocked(State, t)
    /\ \E s2 \in Step(State, t) : Becomes(Rest(s2))

\* A command arrives at the session of user u.
ArriveCreate(u, id) ==
    /\ CanServe(State, u)
    /\ Becomes(Serving(u, CreateCmd(id), "create_guard"))

ArriveJoin(u, id, monitor) ==
    /\ CanServe(State, u)
    /\ Becomes(Serving(u, JoinCmd(id, monitor), "join_guard"))

ArriveLeave(u) ==
    /\ CanServe(State, u)
    /\ Becomes(Serving(u, LeaveCmd, "get_room"))

ArriveStart(u) ==
    /\ CanServe(State, u)
    /\ Becomes(Serving(u, StartCmd, "get_room"))

ArriveReady(u) ==
    /\ CanServe(State, u)
    /\ Becomes(Serving(u, ReadyCmd, "get_room"))

ArriveCancel(u) ==
    /\ CanServe(State, u)
    /\ Becomes(Serving(u, CancelCmd, "get_room"))

ArriveCycle(u, cycle) ==
    /\ CanServe(State, u)
    /\ Becomes(Serving(u, CycleCmd(cycle), "get_room"))

ArriveSelect(u, id, found) ==
    /\ CanServe(State, u)
    /\ Becomes(Serving(u, SelectCmd(id, found), "get_room"))

ArrivePlayed(u, id, player) ==
    /\ CanServe(State, u)
    /\ Becomes(Serving(u, PlayedCmd(id, player), "get_room"))

ArriveAbort(u) ==
    /\ CanServe(State, u)
    /\ Becomes(Serving(u, AbortCmd, "get_room"))

\* The reaper starts the dangle of user u.
Reap(u) ==
    /\ CanLose(State, u)
    /\ Becomes(Dangling(u))

\* The grace timer of user u wakes and finds its mark current.
Wake(u) ==
    /\ CanExpire(State, u)
    /\ Becomes(Expiring(u))

\* ------------------- SpecRace: handlers of different users, steps interleaved
\* Users whose handlers interleave.
NRacers == 2
Racers == 1..NRacers
RaceRoom == 1

InitRace == Starts(Online(Racers, {RaceRoom}))

NextRace ==
    \/ \E u \in Racers : ArriveCreate(u, RaceRoom)
    \/ \E u \in Racers, monitor \in BOOLEAN : ArriveJoin(u, RaceRoom, monitor)
    \/ \E u \in Racers : ArriveLeave(u)
    \/ \E t \in Racers : pc[t] = "create_guard" /\ Advance(t)
    \/ \E t \in Racers : pc[t] = "create_insert" /\ Advance(t)
    \/ \E t \in Racers : pc[t] = "create_set" /\ Advance(t)
    \/ \E t \in Racers : pc[t] = "join_guard" /\ Advance(t)
    \/ \E t \in Racers : pc[t] = "join_lookup" /\ Advance(t)
    \/ \E t \in Racers : pc[t] = "join_locked" /\ Advance(t)
    \/ \E t \in Racers : pc[t] = "join_state" /\ Advance(t)
    \/ \E t \in Racers : pc[t] = "join_add" /\ Advance(t)
    \/ \E t \in Racers : pc[t] = "join_announce" /\ Advance(t)
    \/ \E t \in Racers : pc[t] = "join_set" /\ Advance(t)
    \/ \E t \in Racers : pc[t] = "get_room" /\ Advance(t)
    \/ \E t \in Racers : pc[t] = "oul_send" /\ Advance(t)
    \/ \E t \in Racers : pc[t] = "oul_clear" /\ Advance(t)
    \/ \E t \in Racers : pc[t] = "oul_retain" /\ Advance(t)
    \/ \E t \in Racers : pc[t] = "oul_host" /\ Advance(t)
    \/ \E t \in Racers : pc[t] = "oul_pick" /\ Advance(t)
    \/ \E t \in Racers : pc[t] = "oul_sethost" /\ Advance(t)
    \/ \E t \in Racers : pc[t] = "oul_newhost" /\ Advance(t)
    \/ \E t \in Racers : pc[t] = "oul_drop" /\ Advance(t)
    \/ \E t \in Racers : pc[t] = "car" /\ Advance(t)

SpecRace == InitRace /\ [][NextRace]_vars

\* ------------- SpecTimer: a user's session, its dangle and its grace timer
\* Entries of a room's lists beyond which the user is not made to join again.
MaxListed == 2
\* The user whose connection comes and goes.
Sleeper == 1
TimerTasks == {Sleeper, SysTask(Sleeper)}
TimerRoom == 1

\* add_user leaves the monitor list unbounded; the runs stop joining at
\* MaxListed entries.
ArriveJoinAgain(u, id, monitor) ==
    /\ Len(room[id].users) + Len(room[id].monitors) < MaxListed
    /\ CanServe(State, u)
    /\ Becomes(Serving(u, JoinCmd(id, monitor), "join_guard"))

InitTimer == Starts(Empty({Sleeper}, {TimerRoom}))

NextTimer ==
    \/ Authenticate(Sleeper)
    \/ Reap(Sleeper)
    \/ Wake(Sleeper)
    \/ ArriveCreate(Sleeper, TimerRoom)
    \/ \E monitor \in BOOLEAN : ArriveJoinAgain(Sleeper, TimerRoom, monitor)
    \/ ArriveLeave(Sleeper)
    \/ \E t \in TimerTasks : pc[t] = "create_guard" /\ Advance(t)
    \/ \E t \in TimerTasks : pc[t] = "create_insert" /\ Advance(t)
    \/ \E t \in TimerTasks : pc[t] = "create_set" /\ Advance(t)
    \/ \E t \in TimerTasks : pc[t] = "join_guard" /\ Advance(t)
    \/ \E t \in TimerTasks : pc[t] = "join_lookup" /\ Advance(t)
    \/ \E t \in TimerTasks : pc[t] = "join_locked" /\ Advance(t)
    \/ \E t \in TimerTasks : pc[t] = "join_state" /\ Advance(t)
    \/ \E t \in TimerTasks : pc[t] = "join_add" /\ Advance(t)
    \/ \E t \in TimerTasks : pc[t] = "join_announce" /\ Advance(t)
    \/ \E t \in TimerTasks : pc[t] = "join_set" /\ Advance(t)
    \/ \E t \in TimerTasks : pc[t] = "get_room" /\ Advance(t)
    \/ \E t \in TimerTasks : pc[t] = "oul_send" /\ Advance(t)
    \/ \E t \in TimerTasks : pc[t] = "oul_clear" /\ Advance(t)
    \/ \E t \in TimerTasks : pc[t] = "oul_retain" /\ Advance(t)
    \/ \E t \in TimerTasks : pc[t] = "oul_host" /\ Advance(t)
    \/ \E t \in TimerTasks : pc[t] = "oul_pick" /\ Advance(t)
    \/ \E t \in TimerTasks : pc[t] = "oul_sethost" /\ Advance(t)
    \/ \E t \in TimerTasks : pc[t] = "oul_newhost" /\ Advance(t)
    \/ \E t \in TimerTasks : pc[t] = "oul_drop" /\ Advance(t)
    \/ \E t \in TimerTasks : pc[t] = "car" /\ Advance(t)
    \/ \E t \in TimerTasks : pc[t] = "dangle" /\ Advance(t)
    \/ \E t \in TimerTasks : pc[t] = "expire" /\ Advance(t)
    \/ \E t \in TimerTasks : pc[t] = "sys_drop" /\ Advance(t)

SpecTimer == InitTimer /\ [][NextTimer]_vars

\* ------------------------------ SpecJoin: a room one seat short of full
\* Users that send JoinRoom to the room.
NJoiners == 3
Members == 2..ROOM_MAX_USERS
Joiners == {1} \cup ((ROOM_MAX_USERS + 1)..(ROOM_MAX_USERS + NJoiners - 1))
JoinRoomId == 1

\* Room 1, created by user 2 and joined by the other members in turn.
SeatedRoom(ids) ==
    [NewRoom(2, ids) EXCEPT !.users = [i \in 1..(ROOM_MAX_USERS - 1) |-> i + 1]]

Seated ==
    LET ids == Members \cup Joiners
    IN [rooms |-> {JoinRoomId}, room |-> Table([r \in {JoinRoomId} |-> SeatedRoom(ids)]),
        users |-> ids,
        uroom |-> Table([u \in ids |-> IF u \in Members THEN JoinRoomId ELSE NoRoom]),
        umonitor |-> Table([u \in ids |-> FALSE]),
        usession |-> Table([u \in ids |-> TRUE]),
        dmark |-> Table([u \in ids |-> FALSE]),
        pc |-> Table([t \in Joiners |-> "idle"]), cmd |-> Table([t \in Joiners |-> NoCmd]),
        loc |-> Table([t \in Joiners |-> NoLoc]), reply |-> Table([t \in Joiners |-> "none"]),
        out |-> Table([t \in Joiners |-> <<>>]), pre |-> Table([t \in Joiners |-> NoPre]),
        conn |-> Table([c \in Conns |-> NoConn]), lost |-> <<>>,
        wire |-> NoWire, sync |-> NoSync, client |-> NoClients]

InitJoin == Starts(Seated)

NextJoin ==
    \/ \E u \in Joiners, monitor \in BOOLEAN : ArriveJoin(u, JoinRoomId, monitor)
    \/ \E u \in Joiners : ArriveLeave(u)
    \/ \E t \in Joiners : pc[t] = "join_guard" /\ Advance(t)
    \/ \E t \in Joiners : pc[t] = "join_lookup" /\ Advance(t)
    \/ \E t \in Joiners : pc[t] = "join_locked" /\ Advance(t)
    \/ \E t \in Joiners : pc[t] = "join_state" /\ Advance(t)
    \/ \E t \in Joiners : pc[t] = "join_add" /\ Advance(t)
    \/ \E t \in Joiners : pc[t] = "join_announce" /\ Advance(t)
    \/ \E t \in Joiners : pc[t] = "join_set" /\ Advance(t)
    \/ \E t \in Joiners : pc[t] = "get_room" /\ Advance(t)
    \/ \E t \in Joiners : pc[t] = "oul_send" /\ Advance(t)
    \/ \E t \in Joiners : pc[t] = "oul_clear" /\ Advance(t)
    \/ \E t \in Joiners : pc[t] = "oul_retain" /\ Advance(t)
    \/ \E t \in Joiners : pc[t] = "oul_host" /\ Advance(t)
    \/ \E t \in Joiners : pc[t] = "car" /\ Advance(t)

SpecJoin == InitJoin /\ [][NextJoin]_vars

\* ------------------------- SpecRound: a round of play, steps interleaved
InitRound == Starts(Online(Racers, {RaceRoom}))

NextRound ==
    \/ \E u \in Racers : ArriveCreate(u, RaceRoom)
    \/ \E u \in Racers : ArriveJoin(u, RaceRoom, FALSE)
    \/ \E u \in Racers : ArriveLeave(u)
    \/ \E u \in Racers : ArriveSelect(u, 1, TRUE)
    \/ \E u \in Racers : ArriveStart(u)
    \/ \E u \in Racers : ArriveReady(u)
    \/ \E u \in Racers : ArriveCancel(u)
    \/ \E u \in Racers : ArrivePlayed(u, 1, u)
    \/ \E u \in Racers : ArriveAbort(u)
    \/ \E u \in Racers, cycle \in BOOLEAN : ArriveCycle(u, cycle)
    \/ \E t \in Racers : pc[t] = "create_guard" /\ Advance(t)
    \/ \E t \in Racers : pc[t] = "create_insert" /\ Advance(t)
    \/ \E t \in Racers : pc[t] = "create_set" /\ Advance(t)
    \/ \E t \in Racers : pc[t] = "join_guard" /\ Advance(t)
    \/ \E t \in Racers : pc[t] = "join_lookup" /\ Advance(t)
    \/ \E t \in Racers : pc[t] = "join_locked" /\ Advance(t)
    \/ \E t \in Racers : pc[t] = "join_state" /\ Advance(t)
    \/ \E t \in Racers : pc[t] = "join_add" /\ Advance(t)
    \/ \E t \in Racers : pc[t] = "join_announce" /\ Advance(t)
    \/ \E t \in Racers : pc[t] = "join_set" /\ Advance(t)
    \/ \E t \in Racers : pc[t] = "get_room" /\ Advance(t)
    \/ \E t \in Racers : pc[t] = "oul_send" /\ Advance(t)
    \/ \E t \in Racers : pc[t] = "oul_clear" /\ Advance(t)
    \/ \E t \in Racers : pc[t] = "oul_retain" /\ Advance(t)
    \/ \E t \in Racers : pc[t] = "oul_host" /\ Advance(t)
    \/ \E t \in Racers : pc[t] = "oul_pick" /\ Advance(t)
    \/ \E t \in Racers : pc[t] = "oul_sethost" /\ Advance(t)
    \/ \E t \in Racers : pc[t] = "oul_newhost" /\ Advance(t)
    \/ \E t \in Racers : pc[t] = "oul_drop" /\ Advance(t)
    \/ \E t \in Racers : pc[t] = "car" /\ Advance(t)
    \/ \E t \in Racers : pc[t] = "car_start_send" /\ Advance(t)
    \/ \E t \in Racers : pc[t] = "car_start_set" /\ Advance(t)
    \/ \E t \in Racers : pc[t] = "car_start_notify" /\ Advance(t)
    \/ \E t \in Racers : pc[t] = "car_end_send" /\ Advance(t)
    \/ \E t \in Racers : pc[t] = "car_end_set" /\ Advance(t)
    \/ \E t \in Racers : pc[t] = "car_cycle" /\ Advance(t)
    \/ \E t \in Racers : pc[t] = "car_cycle_pick" /\ Advance(t)
    \/ \E t \in Racers : pc[t] = "car_cycle_set" /\ Advance(t)
    \/ \E t \in Racers : pc[t] = "car_cycle_send" /\ Advance(t)
    \/ \E t \in Racers : pc[t] = "cycle" /\ Advance(t)
    \/ \E t \in Racers : pc[t] = "cycle_store" /\ Advance(t)
    \/ \E t \in Racers : pc[t] = "car_end_notify" /\ Advance(t)
    \/ \E t \in Racers : pc[t] = "select" /\ Advance(t)
    \/ \E t \in Racers : pc[t] = "select_send" /\ Advance(t)
    \/ \E t \in Racers : pc[t] = "select_store" /\ Advance(t)
    \/ \E t \in Racers : pc[t] = "select_notify" /\ Advance(t)
    \/ \E t \in Racers : pc[t] = "start_host" /\ Advance(t)
    \/ \E t \in Racers : pc[t] = "start_chart" /\ Advance(t)
    \/ \E t \in Racers : pc[t] = "start_send" /\ Advance(t)
    \/ \E t \in Racers : pc[t] = "start_set" /\ Advance(t)
    \/ \E t \in Racers : pc[t] = "start_notify" /\ Advance(t)
    \/ \E t \in Racers : pc[t] = "ready" /\ Advance(t)
    \/ \E t \in Racers : pc[t] = "cancel" /\ Advance(t)
    \/ \E t \in Racers : pc[t] = "cancel_notify" /\ Advance(t)
    \/ \E t \in Racers : pc[t] = "played_fetch" /\ Advance(t)
    \/ \E t \in Racers : pc[t] = "played_insert" /\ Advance(t)
    \/ \E t \in Racers : pc[t] = "abort" /\ Advance(t)
    \/ \E t \in Racers : pc[t] = "abort_send" /\ Advance(t)

SpecRound == InitRound /\ [][NextRound]_vars

\* ------------------------------------- connections (Session::new, server.rs)
\* User ids the identity service answers tokens with.
NAccounts == 1
Accounts == 1..NAccounts


\* A token: whether it is 32 bytes long, and the id GET /me returns for it
\* (NoUser when the service rejects it).
Tokens == {[len32 |-> b, id |-> i] : b \in BOOLEAN, i \in {NoUser} \cup Accounts}

\* token.len() != 32 bails, and so does a failed fetch
TokenAccepted(tok) == tok.len32 /\ tok.id # NoUser

\* what the handler hands to send_tx
Answer(kind, info, state) == [kind |-> kind, info |-> info, state |-> state]

\* User::to_info
UserInfo(s, u) == [id |-> u, monitor |-> s.umonitor[u]]

NoInfo == [id |-> NoUser, monitor |-> FALSE]

NoClientState == [id |-> NoRoom, state |-> "none", chart |-> 0, live |-> FALSE,
                  locked |-> FALSE, cycle |-> FALSE, is_host |-> FALSE,
                  is_ready |-> FALSE, users |-> <<>>]

\* Room::client_state for the room of user u (None without a room)
ClientState(s, u) ==
    IF s.uroom[u] = NoRoom THEN NoClientState
    ELSE LET rm == s.room[s.uroom[u]]
         IN [id |-> s.uroom[u], state |-> rm.state, chart |-> rm.chart, live |-> rm.live,
             locked |-> rm.locked, cycle |-> rm.cycle, is_host |-> CheckHost(rm, u),
             is_ready |-> (rm.state = "WaitForReady" /\ u \in rm.started),
             users |-> rm.users \o rm.monitors]

Pong == Answer("Pong", NoInfo, NoClientState)

\* let tx = tx.take(): the call owns the sender and drops it when it
\* returns without having sent the user
TxDropped(cn) == IF cn.tx = "some" THEN [cn EXCEPT !.tx = "gone"] ELSE cn

\* The handler called with Ping: nothing once panicked, else Pong.
HandlePing(s, c) ==
    IF s.conn[c].panicked
    THEN [s EXCEPT !.conn[c].answer = <<>>]
    ELSE [s EXCEPT !.conn[c] = [TxDropped(@) EXCEPT !.answer = <<Pong>>]]

\* The handler called before authentication with a command that is neither
\* Ping nor Authenticate: "packet before authentication, ignoring".
HandleEarly(s, c) ==
    IF s.conn[c].panicked
    THEN [s EXCEPT !.conn[c].answer = <<>>]
    ELSE [s EXCEPT !.conn[c] = [TxDropped(@) EXCEPT !.answer = <<>>]]

\* if let Err(err) = res: Authenticate(Err), panicked, lost_con_tx.send(id)
AuthFailed(s, c) ==
    [s EXCEPT !.conn[c] = [@ EXCEPT !.tx = "gone", !.panicked = TRUE,
                                    !.answer = <<Answer("Authenticate_Err", NoInfo,
                                                        NoClientState)>>],
              !.lost = Append(@, c)]

\* The authentication succeeds: under users.write() the user of the
\* registry is re-attached or a new User inserted (SetSession), the user
\* goes to Session::new, which builds the Session, and Server::accept puts
\* it into the session registry; the reply carries the user's room.
AuthSucceeded(s, c, u) ==
    LET s1 == SetSession(s, u)
        s2 == [s1 EXCEPT !.conn = Table([d \in DOMAIN s.conn |->
                                  IF d = c
                                  THEN [s.conn[d] EXCEPT !.st = "open", !.tx = "sent",
                                                         !.user = u, !.listed = TRUE,
                                                         !.current = TRUE,
                                                         !.waiting = FALSE]
                                  ELSE IF s.conn[d].user = u
                                  THEN [s.conn[d] EXCEPT !.current = FALSE]
                                  ELSE s.conn[d]])]
    IN [s2 EXCEPT !.conn[c].answer =
                     <<Answer("Authenticate_Ok", UserInfo(s2, u), ClientState(s2, u))>>]

\* The handler called with Authenticate { token }.
HandleAuth(s, c, tok) ==
    IF s.conn[c].panicked
    THEN [s EXCEPT !.conn[c].answer = <<>>]
    ELSE IF ~s.conn[c].waiting
    THEN [s EXCEPT !.conn[c].answer =
                     <<Answer("Authenticate_Err", NoInfo, NoClientState)>>]
    ELSE IF s.conn[c].tx # "some"
    THEN [s EXCEPT !.conn[c].answer = <<>>]
    ELSE IF TokenAccepted(tok)
    THEN AuthSucceeded(s, c, tok.id)
    ELSE AuthFailed(s, c)

\* The users whose last Arc is gone: in neither the registry nor a Session,
\* and no task at work on them.
GoneUsers(s) ==
    {u \in DOMAIN s.uroom :
        /\ u \notin s.users /\ ~s.usession[u] /\ ~Held(s, u)
        /\ s.pc[u] = "idle" /\ s.pc[SysTask(u)] = "idle"}

\* Their Weak<User> no longer upgrades, and the rooms only they held drop.
ReleaseUsers(s) ==
    LET gone == GoneUsers(s)
        s1 == [s EXCEPT !.room = Table([r \in DOMAIN s.room |->
                                  [s.room[r] EXCEPT
                                     !.users = SelectSeq(@, LAMBDA x : x \notin gone),
                                     !.monitors = SelectSeq(@, LAMBDA x : x \notin gone),
                                     !.host = IF @ \in gone THEN NoUser ELSE @,
                                     !.told = @ \ gone, !.early = @ \ gone]]),
                        !.uroom = Table([u \in DOMAIN s.uroom |->
                                   IF u \in gone THEN NoRoom ELSE s.uroom[u]]),
                        !.umonitor = Table([u \in DOMAIN s.uroom |->
                                      IF u \in gone THEN FALSE ELSE s.umonitor[u]])]
    IN Rest(s1)

\* The handler can be called: the receive task is alive.
CanReceive(s, c) == s.conn[c].st # "none" /\ s.conn[c].recv

\* Server::accept: one connection at a time, under sessions.write() until
\* Session::new returns.
Accepting(s) == \E c \in DOMAIN s.conn : s.conn[c].st = "accepting"

Accept(c) ==
    /\ conn[c].st = "none"
    /\ ~Accepting(State)
    /\ Becomes([State EXCEPT !.conn[c] = [NoConn EXCEPT !.st = "accepting", !.recv = TRUE]])

RecvPing(c) ==
    /\ CanReceive(State, c)
    /\ Becomes(HandlePing(State, c))

RecvEarly(c) ==
    /\ CanReceive(State, c)
    /\ conn[c].waiting
    /\ Becomes(HandleEarly(State, c))

\* A second User object of an id is made only when the first is gone.
RecvAuth(c, tok) ==
    /\ CanReceive(State, c)
    /\ TokenAccepted(tok) => (tok.id \in users \/ tok.id \in GoneUsers(State))
    /\ Becomes(HandleAuth(State, c, tok))

\* the response process returns, as the handler hands it to send_tx
Response(s, u) == Answer(s.cmd[u].kind, [id |-> u, monitor |-> FALSE],
                         [NoClientState EXCEPT !.state = s.reply[u]])

\* The handler called after authentication: process(user, cmd), run to its end.
RecvCommand(c, command, label) ==
    /\ CanReceive(State, c)
    /\ ~conn[c].waiting /\ ~conn[c].panicked
    /\ pc[conn[c].user] = "idle"
    /\ \E s2 \in Run(Serving(conn[c].user, command, label), conn[c].user) :
          Becomes([Rest(s2) EXCEPT !.conn[c].answer = <<Response(s2, conn[c].user)>>])

RecvCreate(c) == RecvCommand(c, CreateCmd(GameRoom), "create_guard")

RecvLeave(c) == RecvCommand(c, LeaveCmd, "get_room")

\* The peer closes the connection: the receive task ends on the read error
\* and drops the handler closure.
PeerCloses(c) ==
    /\ CanReceive(State, c)
    /\ Becomes(ReleaseUsers([State EXCEPT !.conn[c] = [TxDropped(@) EXCEPT !.recv = FALSE]]))

\* rx.await? fails once the sender is dropped: Session::new returns Err,
\* the Stream is dropped and aborts its tasks, Server::accept returns.
FailNew(c) ==
    /\ conn[c].st = "accepting"
    /\ conn[c].tx = "gone"
    /\ Becomes([State EXCEPT !.conn[c].st = "failed", !.conn[c].recv = FALSE])

\* The heartbeat task finds nothing received for HEARTBEAT_DISCONNECT_TIMEOUT,
\* reports the connection and ends.  Session::drop aborts it; a JoinHandle
\* dropped by the failed Session::new does not.
WatchdogRuns(s, c) ==
    /\ ~s.conn[c].watchdog
    /\ \/ s.conn[c].st \in {"accepting", "failed"}
       \/ s.conn[c].st = "open" /\ (s.conn[c].listed \/ s.conn[c].recv)

Watchdog(c) ==
    /\ WatchdogRuns(State, c)
    /\ Becomes([State EXCEPT !.conn[c].watchdog = TRUE, !.lost = Append(@, c)])

\* The reaper takes one id off the channel: sessions.write().remove(&id),
\* then the ptr_eq test and dangle.  It waits while Server::accept holds
\* sessions.write().
Reaped(s, c) ==
    [s EXCEPT !.lost = Tail(@), !.conn[c].listed = FALSE, !.conn[c].reaped = @ + 1]

ReapNext ==
    /\ lost # <<>>
    /\ ~Accepting(State)
    /\ LET c == Head(lost)
           u == conn[c].user
       IN IF ~conn[c].listed
          THEN Becomes([State EXCEPT !.lost = Tail(@)])
          ELSE IF ~conn[c].current
          THEN Becomes(ReleaseUsers(Reaped(State, c)))
          ELSE /\ pc[u] = "idle" /\ pc[SysTask(u)] = "idle"
               /\ LET s0 == [Reaped(State, c) EXCEPT !.conn[c].dangled = @ + 1]
                      s1 == Begin(LoseSession(s0, u), SysTask(u), SysCmd("Dangle"), "dangle")
                  IN \E s2 \in Run(s1, SysTask(u)) : Becomes(Rest(s2))

\* ------------------------- SpecSession: connections, whole handlers
InitSession == Starts(Empty(Accounts, {GameRoom}))

NextSession ==
    \/ \E c \in Conns : Accept(c)
    \/ \E c \in Conns : RecvPing(c)
    \/ \E c \in Conns : RecvEarly(c)
    \/ \E c \in Conns, tok \in Tokens : RecvAuth(c, tok)
    \/ \E c \in Conns : RecvCreate(c)
    \/ \E c \in Conns : RecvLeave(c)
    \/ \E c \in Conns : PeerCloses(c)
    \/ \E c \in Conns : FailNew(c)
    \/ \E c \in Conns : Watchdog(c)
    \/ ReapNext
    \/ \E u \in Accounts : Timeout(u)

SpecSession == InitSession /\ [][NextSession]_vars

\* The server's own tasks are scheduled: the reaper, the return of a failed
\* Session::new and the grace timer.  Nothing makes a client send.
SpecSessionFair ==
    /\ SpecSession
    /\ WF_vars(ReapNext)
    /\ \A c \in Conns : WF_vars(FailNew(c))
    /\ \A u \in Accounts : WF_vars(Timeout(u))

\* ------------------------------------------ framing (phira-mp-common lib.rs)
\* Bytes on the socket of the framing specification.
MaxWire == 6
\* Frames the server side queues for sending.
MaxQueued == 1

\* 0x00 (the tag of ClientCommand::Ping), 0x01, 0x10, 0x80, 0x81
WireBytes == {0, 1, 16, 128, 129}

\* the byte strings of at most n bytes over a set of bytes
Strings(bytes, n) == UNION {[1..k -> bytes] : k \in 0..n}

\* byte & 0x7f, as the set of its 1-bits
Bits(byte) == {k \in 0..6 : (byte \div (2 ^ k)) % 2 = 1}

\* byte & 0x80 != 0
More(byte) == byte >= 128

\* value << shift in an unsigned integer of the given width: the bits
\* shifted past the width are lost
Shl(bits, shift, width) == {k + shift : k \in bits} \cap (0..(width - 1))

\* The length loop of the receive task, from byte i on: len |= ((byte &
\* 0x7f) as u32) << pos; pos += 7; break on a byte without 0x80; bail once
\* pos > 32.
RECURSIVE ReadLength(_, _, _)
ReadLength(input, i, len) ==
    IF i > Len(input)
    THEN [status |-> "eof", len |-> len, used |-> Len(input)]
    ELSE LET len2 == len \cup Shl(Bits(input[i]), 7 * (i - 1), 32)
         IN IF ~More(input[i])
            THEN [status |-> "ok", len |-> len2, used |-> i]
            ELSE IF 7 * i > 32
            THEN [status |-> "invalid", len |-> len2, used |-> i]
            ELSE ReadLength(input, i + 1, len2)

\* 2 * 1024 * 1024 = 2^21, as the set of its 1-bits
FrameLimit == {21}

\* a > b for two unsigned integers given by their 1-bits
Exceeds(a, b) == \E k \in a \ b : \A j \in b \ a : j < k

\* the number a set of 1-bits stands for
RECURSIVE Number(_)
Number(bits) ==
    IF bits = {} THEN 0
    ELSE LET k == CHOOSE x \in bits : TRUE IN 2 ^ k + Number(bits \ {k})

\* read.read_exact(&mut buffer) can be served from what the peer has sent
Buffered(w) == w.len \subseteq 0..6 /\ Number(w.len) <= Len(w.input)

\* the value the first used bytes of a prefix encode, all bits kept
Encoded(input, used) == UNION {{k + 7 * (i - 1) : k \in Bits(input[i])} : i \in 1..used}

\* decode_packet: of the payloads this short only the tag of Ping decodes
Decodes(payload) == payload = <<0>>

\* The receive task reads a length prefix.  On a socket without enough
\* bytes it waits, and gets a read error once the peer has closed.
RecvLength ==
    /\ wire.recv = "head"
    /\ LET r == ReadLength(wire.input, 1, {})
           rest == SubSeq(wire.input, r.used + 1, Len(wire.input))
       IN CASE r.status = "ok" ->
                 wire' = [wire EXCEPT !.recv = "check", !.len = r.len, !.input = rest,
                                      !.over = Exceeds(Encoded(wire.input, r.used),
                                                       FrameLimit)]
            [] r.status = "invalid" ->
                 wire' = [wire EXCEPT !.recv = "failed", !.input = rest, !.rejected = TRUE]
            [] r.status = "eof" ->
                 wire.hung /\ wire' = [wire EXCEPT !.recv = "failed", !.input = <<>>]
    /\ UNCHANGED <<rooms, room, users, uroom, umonitor, usession, dmark,
                   pc, cmd, loc, reply, out, pre, conn, lost, sync, client>>

\* if len > 2 * 1024 * 1024 { bail!("data packet too large") }
RecvCheck ==
    /\ wire.recv = "check"
    /\ wire' = IF Exceeds(wire.len, FrameLimit)
               THEN [wire EXCEPT !.recv = "failed", !.rejected = TRUE]
               ELSE [wire EXCEPT !.recv = "body"]
    /\ UNCHANGED <<rooms, room, users, uroom, umonitor, usession, dmark,
                   pc, cmd, loc, reply, out, pre, conn, lost, sync, client>>

\* read_exact, decode_packet, handler(send_tx, payload).await; an invalid
\* packet breaks the loop and the task returns Ok(())
RecvPayload ==
    /\ wire.recv = "body"
    /\ IF Buffered(wire)
       THEN LET n == Number(wire.len)
                payload == SubSeq(wire.input, 1, n)
                rest == SubSeq(wire.input, n + 1, Len(wire.input))
            IN wire' = IF Decodes(payload)
                       THEN [wire EXCEPT !.recv = "head", !.input = rest,
                                         !.bigpassed = @ \/ wire.over,
                                         !.latedispatch = @ \/ wire.wfail]
                       ELSE [wire EXCEPT !.recv = "ended", !.input = rest]
       ELSE wire.hung /\ wire' = [wire EXCEPT !.recv = "failed", !.input = <<>>]
    /\ UNCHANGED <<rooms, room, users, uroom, umonitor, usession, dmark,
                   pc, cmd, loc, reply, out, pre, conn, lost, sync, client>>

\* Stream::send: send_tx.send(payload)
StreamSend ==
    /\ wire.send = "running"
    /\ wire.outq < MaxQueued
    /\ wire' = [wire EXCEPT !.outq = @ + 1]
    /\ UNCHANGED <<rooms, room, users, uroom, umonitor, usession, dmark,
                   pc, cmd, loc, reply, out, pre, conn, lost, sync, client>>

\* The send task takes a frame off the channel and writes it; a failed
\* write is logged and the loop goes on.
SendFrame ==
    /\ wire.send = "running"
    /\ wire.outq > 0
    /\ wire' = IF wire.hung
               THEN [wire EXCEPT !.outq = @ - 1, !.wfail = TRUE]
               ELSE [wire EXCEPT !.outq = @ - 1,
                                 !.latewrite = @ \/ (wire.recv = "failed")]
    /\ UNCHANGED <<rooms, room, users, uroom, umonitor, usession, dmark,
                   pc, cmd, loc, reply, out, pre, conn, lost, sync, client>>

\* The peer closes the connection: what it has sent can still be read,
\* writes fail.
Hangup ==
    /\ wire.send = "running"
    /\ ~wire.hung
    /\ wire' = [wire EXCEPT !.hung = TRUE]
    /\ UNCHANGED <<rooms, room, users, uroom, umonitor, usession, dmark,
                   pc, cmd, loc, reply, out, pre, conn, lost, sync, client>>

\* Drop for Stream: both tasks are aborted
DropStream ==
    /\ wire.send = "running"
    /\ wire' = [wire EXCEPT !.send = "aborted", !.recv = "aborted", !.outq = 0]
    /\ UNCHANGED <<rooms, room, users, uroom, umonitor, usession, dmark,
                   pc, cmd, loc, reply, out, pre, conn, lost, sync, client>>

\* ------------------------------ SpecWire: one Stream and what its peer sends
InitWire ==
    \E input \in Strings(WireBytes, MaxWire) :
        Starts([Empty({}, {}) EXCEPT
                   !.wire = [NoWire EXCEPT !.input = input, !.recv = "head",
                                           !.send = "running"]])

NextWire ==
    \/ RecvLength
    \/ RecvCheck
    \/ RecvPayload
    \/ StreamSend
    \/ SendFrame
    \/ Hangup
    \/ DropStream

SpecWire == InitWire /\ [][NextWire]_vars

\* ------------------------------------------- BinaryReader::uleb (bin.rs)
\* Bytes of the longest continuation chain.
MaxChain == 11

\* 0x01 and 0x80
ChainBytes == {1, 128}

\* BinaryReader::uleb from byte i on: result |= ((byte & 0x7f) as u64) <<
\* shift.  A shift of 64 or more panics in a build with overflow checks and
\* is taken modulo 64 in a build without.
RECURSIVE Uleb(_, _, _, _)
Uleb(input, i, result, checked) ==
    IF i > Len(input)
    THEN [status |-> "error", bits |-> {}]
    ELSE LET shift == 7 * (i - 1)
         IN IF shift >= 64 /\ checked
            THEN [status |-> "panic", bits |-> {}]
            ELSE LET result2 == result \cup Shl(Bits(input[i]), shift % 64, 64)
                 IN IF ~More(input[i])
                    THEN [status |-> "ok", bits |-> result2]
                    ELSE Uleb(input, i + 1, result2, checked)

\* what the builds of the program can return for an input
UlebOutcomes(input) == {Uleb(input, 1, {}, checked) : checked \in BOOLEAN}

ReadUleb ==
    /\ wire.recv = "uleb"
    /\ \E r \in UlebOutcomes(wire.input) :
          wire' = [wire EXCEPT !.recv = "read", !.result = r]
    /\ UNCHANGED <<rooms, room, users, uroom, umonitor, usession, dmark,
                   pc, cmd, loc, reply, out, pre, conn, lost, sync, client>>

\* ------------------------------------- SpecUleb: BinaryReader::uleb on an input
InitUleb ==
    \E input \in Strings(ChainBytes, MaxChain) :
        Starts([Empty({}, {}) EXCEPT !.wire = [NoWire EXCEPT !.input = input,
                                                              !.recv = "uleb"]])

NextUleb == ReadUleb

SpecUleb == InitUleb /\ [][NextUleb]_vars

\* ------------------------------------------- locks (room.rs, session.rs, server.rs)
\* Users whose locks are looked at.
NLockUsers == 2
\* Tasks that are under way at one time.
MaxRunning == 3

LockUsers == 1..NLockUsers

\* The command handlers (the receive task of the session of each user), the
\* handler of a connection that authenticates, Server::accept, the reaper, a
\* grace timer.
Handlers == {<<"handler", u>> : u \in LockUsers}
Auth == <<"auth", 0>>
Acceptor == <<"accept", 0>>
Reaper == <<"reaper", 0>>
Timer == <<"timer", 0>>
LockTasks == Handlers \cup {Auth, Acceptor, Reaper, Timer}

\* An operation on locks.  A lock is a name and the user it belongs to (0
\* for a lock of the server or of the room); a request adds the mode, "R"
\* for read() and "W" for write() or for a Mutex's lock().
\*   acq     the guard is kept until the rel of the lock
\*   touch   the guard is a temporary or is dropped before the next
\*           operation: the task waits for the lock and holds it for no
\*           other operation
\*   wait, signal   the oneshot and the Notify of Session::new
Acq(name, owner, mode) == [op |-> "acq", locks |-> {<<name, owner, mode>>}, ev |-> "none"]
Rel(name, owner) == [op |-> "rel", locks |-> {<<name, owner, "R">>, <<name, owner, "W">>},
                     ev |-> "none"]
Touch(name, owner, mode) == [op |-> "touch", locks |-> {<<name, owner, mode>>}, ev |-> "none"]
Signal(ev) == [op |-> "signal", locks |-> {}, ev |-> ev]
Await(ev) == [op |-> "wait", locks |-> {}, ev |-> ev]

\* User::try_send: self.session.read() is held over session.try_send(cmd)
TrySendOps(u) == <<Touch("user.session", u, "R")>>

RECURSIVE TrySendAllOps(_)
TrySendAllOps(n) == IF n = 0 THEN <<>> ELSE TrySendAllOps(n - 1) \o TrySendOps(n)

\* Room::broadcast: users(), monitors(), then try_send for each of them
BroadcastOps ==
    <<Touch("room.users", 0, "R"), Touch("room.monitors", 0, "R")>>
        \o TrySendAllOps(NLockUsers)

\* Room::check_host
CheckHostOps == <<Touch("room.host", 0, "R")>>

\* Room::client_room_state: self.state.read() is held over self.chart.read()
ClientRoomStateOps ==
    <<Acq("room.state", 0, "R"), Touch("room.chart", 0, "R"), Rel("room.state", 0)>>

\* Room::on_state_change
OnStateChangeOps == ClientRoomStateOps \o BroadcastOps

\* Room::client_state
RoomClientStateOps ==
    ClientRoomStateOps
        \o CheckHostOps
        \o <<Touch("room.state", 0, "R"), Touch("room.users", 0, "R"),
             Touch("room.monitors", 0, "R")>>

\* check_all_ready as it would be without its drop(guard): the read guard of
\* state is still held at the write
CarStartKeepsGuard ==
    <<Acq("room.state", 0, "R"), Touch("room.users", 0, "R"),
      Touch("room.monitors", 0, "R")>>
        \o BroadcastOps
        \o <<Touch("room.users", 0, "R"), Touch("room.state", 0, "W"),
             Rel("room.state", 0)>>

\* Room::check_all_ready, the WaitForReady branch: the all-started test under
\* the read guard, drop(guard), StartPlaying, reset_game_time, the write of
\* Playing, on_state_change
CarStartOps ==
    <<Acq("room.state", 0, "R"), Touch("room.users", 0, "R"),
      Touch("room.monitors", 0, "R"), Rel("room.state", 0)>>
        \o BroadcastOps
        \o <<Touch("room.users", 0, "R"), Touch("room.state", 0, "W")>>
        \o OnStateChangeOps

\* Room::check_all_ready, the Playing branch with cycle set
CarEndOps ==
    <<Acq("room.state", 0, "R"), Touch("room.users", 0, "R"), Rel("room.state", 0)>>
        \o BroadcastOps
        \o <<Touch("room.state", 0, "W"), Touch("room.host", 0, "R"),
             Touch("room.users", 0, "R"), Touch("room.host", 0, "W")>>
        \o BroadcastOps
        \o OnStateChangeOps

\* the branches of check_all_ready (a branch that returns early takes a
\* part of these locks in the same order)
CarPaths == {CarStartOps, CarEndOps}

\* Room::on_user_leave of a host with a successor, up to check_all_ready
OulOps(u) ==
    BroadcastOps
        \o <<Touch("user.room", u, "W"), Touch("room.users", 0, "W"),
             Touch("room.monitors", 0, "W")>>
        \o CheckHostOps
        \o <<Touch("room.users", 0, "R"), Touch("room.host", 0, "W")>>
        \o BroadcastOps

\* on_user_leave, and the caller's rooms.write().remove(..)
LeavePaths(u) ==
    {OulOps(u) \o car \o <<Touch("rooms", 0, "W")>> : car \in CarPaths}

\* get_room!(room) and get_room!(room, pattern)
GetRoomOps(u) == <<Touch("user.room", u, "R")>>
GetRoomInOps(u) == <<Touch("user.room", u, "R"), Touch("room.state", 0, "R")>>

\* process: the lock operations of each command, errors aside
CreateRoomOps(u) ==
    <<Acq("user.room", u, "W"), Acq("rooms", 0, "W")>>
        \o BroadcastOps
        \o <<Rel("rooms", 0), Rel("user.room", u)>>

JoinRoomOps(u) ==
    <<Acq("user.room", u, "W"), Touch("rooms", 0, "R"), Touch("room.state", 0, "R"),
      Touch("room.users", 0, "W"), Touch("room.monitors", 0, "W")>>
        \o BroadcastOps
        \o ClientRoomStateOps
        \o <<Touch("room.users", 0, "R"), Touch("room.monitors", 0, "R"),
             Rel("user.room", u)>>

HostCommandOps(u) == GetRoomOps(u) \o CheckHostOps \o BroadcastOps

SelectChartOps(u) ==
    GetRoomInOps(u) \o CheckHostOps \o BroadcastOps
        \o <<Touch("room.chart", 0, "W")>> \o OnStateChangeOps

RequestStartOps(u) ==
    GetRoomInOps(u) \o CheckHostOps
        \o <<Touch("room.chart", 0, "R"), Touch("room.users", 0, "R")>>
        \o BroadcastOps
        \o <<Touch("room.state", 0, "W")>>
        \o OnStateChangeOps

ReadyOps(u) ==
    GetRoomOps(u) \o <<Acq("room.state", 0, "W")>> \o BroadcastOps
        \o <<Rel("room.state", 0)>>

CancelReadyOps(u) ==
    GetRoomOps(u) \o <<Acq("room.state", 0, "W")>> \o CheckHostOps \o BroadcastOps
        \o <<Rel("room.state", 0)>> \o OnStateChangeOps

PlayedOps(u) == GetRoomOps(u) \o BroadcastOps \o <<Touch("room.state", 0, "W")>>

AbortOps(u) == GetRoomOps(u) \o <<Touch("room.state", 0, "W")>> \o BroadcastOps

\* the lock operations a command of user u can make
CommandPaths(u) ==
    {CreateRoomOps(u), JoinRoomOps(u), HostCommandOps(u), SelectChartOps(u),
     CancelReadyOps(u)}
        \cup {GetRoomOps(u) \o leave : leave \in LeavePaths(u)}
        \cup {RequestStartOps(u) \o car : car \in CarPaths}
        \cup {ReadyOps(u) \o car : car \in CarPaths}
        \cup {PlayedOps(u) \o car : car \in CarPaths}
        \cup {AbortOps(u) \o car : car \in CarPaths}

\* User::dangle: during play the state guard is held over
\* users.write().remove(..); otherwise the mark is stored
DanglePaths(u) ==
    {<<Touch("user.room", u, "R"), Acq("room.state", 0, "R"),
       Touch("server.users", 0, "W"), Rel("room.state", 0)>> \o leave :
         leave \in LeavePaths(u)}
      \cup {<<Touch("user.room", u, "R"), Acq("room.state", 0, "R"), Rel("room.state", 0),
              Touch("user.mark", u, "W")>>}

\* the grace timer
TimerPaths(u) ==
    {<<Touch("user.room", u, "R"), Touch("server.users", 0, "W")>> \o leave :
        leave \in LeavePaths(u)}

\* the reaper: the guard of sessions.write() lives to the end of the if let
ReaperPaths(u) ==
    {<<Acq("sessions", 0, "W"), Touch("user.session", u, "R")>> \o dangle
        \o <<Rel("sessions", 0)>> : dangle \in DanglePaths(u)}

\* Server::accept: sessions.write() is held over Session::new, which waits
\* for the oneshot and then sets `this` and notifies
AcceptOps ==
    <<Acq("sessions", 0, "W"), Await("tx"), Signal("inited"), Rel("sessions", 0)>>

\* the handler of Authenticate: users.write() is held over tx.send,
\* this_inited.notified() and set_session; then the room guard is held over
\* client_state
AuthOps(u) ==
    <<Acq("server.users", 0, "W"), Signal("tx"), Await("inited"),
      Touch("user.session", u, "W"), Touch("user.mark", u, "W"),
      Rel("server.users", 0), Acq("user.room", u, "R")>>
        \o RoomClientStateOps
        \o <<Rel("user.room", u)>>

\* ---- the locks
Running(s) == {t \in LockTasks : s.sync.prog[t] # <<>>}

NextOp(s, t) == Head(s.sync.prog[t])

\* the tasks that hold lock (name, owner), in one mode or in any
HoldersIn(s, q) == {t \in LockTasks : q \in s.sync.has[t]}
Holders(s, q) == HoldersIn(s, <<q[1], q[2], "R">>) \cup HoldersIn(s, <<q[1], q[2], "W">>)

\* tokio's RwLock is fair: a write() that waits for the readers keeps later
\* read() calls waiting
QueuedWriters(s, q) ==
    {w \in Running(s) : /\ NextOp(s, w).op \in {"acq", "touch"}
                        /\ <<q[1], q[2], "W">> \in NextOp(s, w).locks
                        /\ Holders(s, q) # {}}

\* the tasks request q of task t has to wait for: a write waits for every
\* holder, a read for the writer that holds q and, behind a queued writer,
\* for the holders that writer is waiting for
Ahead(s, t, q) ==
    IF q[3] = "W" THEN Holders(s, q)
    ELSE HoldersIn(s, <<q[1], q[2], "W">>)
         \cup (IF QueuedWriters(s, q) \ {t} # {} THEN Holders(s, q) ELSE {})

\* the tasks that can still send ev
Senders(s, ev) ==
    {t \in Running(s) :
        \E i \in DOMAIN s.sync.prog[t] :
            s.sync.prog[t][i].op = "signal" /\ s.sync.prog[t][i].ev = ev}

\* the tasks task t waits for
WaitsFor(s, t) ==
    IF t \notin Running(s) THEN {}
    ELSE LET o == NextOp(s, t)
         IN CASE o.op \in {"acq", "touch"} -> UNION {Ahead(s, t, q) : q \in o.locks}
              [] o.op = "wait" -> IF o.ev \in s.sync.sent THEN {} ELSE Senders(s, o.ev)
              [] OTHER -> {}

\* task t can make its next operation
CanRun(s, t) ==
    /\ t \in Running(s)
    /\ WaitsFor(s, t) = {}
    /\ NextOp(s, t).op = "wait" => NextOp(s, t).ev \in s.sync.sent

\* task t makes its next operation
Operate(s, t) ==
    LET o == NextOp(s, t)
        has == CASE o.op = "acq" -> s.sync.has[t] \cup o.locks
                 [] o.op = "rel" -> s.sync.has[t] \ o.locks
                 [] OTHER -> s.sync.has[t]
        sent == CASE o.op = "signal" -> s.sync.sent \cup {o.ev}
                  [] o.op = "wait" -> s.sync.sent \ {o.ev}
                  [] OTHER -> s.sync.sent
    IN [s EXCEPT !.sync.prog[t] = Tail(@), !.sync.has[t] = has, !.sync.sent = sent]

\* Touches that follow one another are taken as one: the task holds the
\* same locks before each of them, so whoever would keep it waiting at one
\* of them keeps it waiting at the first.
RECURSIVE Fused(_)
Fused(ops) ==
    IF Len(ops) < 2 THEN ops
    ELSE IF ops[1].op = "touch" /\ ops[2].op = "touch"
    THEN Fused(<<[ops[1] EXCEPT !.locks = @ \cup ops[2].locks]>> \o SubSeq(ops, 3, Len(ops)))
    ELSE <<ops[1]>> \o Fused(Tail(ops))

\* a task starts on a path
Launch(s, t, path) == [s EXCEPT !.sync.prog[t] = Fused(path)]

CanLaunch(s, t) ==
    /\ t \notin Running(s)
    /\ Cardinality(Running(s)) < MaxRunning

\* ---- SpecLocks: the tasks of the server as users of its locks
Command(t) ==
    /\ CanLaunch(State, t)
    /\ \E path \in CommandPaths(t[2]) : Becomes(Launch(State, t, path))

\* the client of the connection being accepted sends Authenticate
Authenticates(u) ==
    /\ CanLaunch(State, Auth)
    /\ Acceptor \in Running(State)
    /\ NextOp(State, Acceptor) = Await("tx")
    /\ "tx" \notin sync.sent
    /\ Becomes(Launch(State, Auth, AuthOps(u)))

Accepts ==
    /\ CanLaunch(State, Acceptor)
    /\ Becomes(Launch(State, Acceptor, AcceptOps))

LostConnection(u) ==
    /\ CanLaunch(State, Reaper)
    /\ \E path \in ReaperPaths(u) : Becomes(Launch(State, Reaper, path))

GraceTimer(u) ==
    /\ CanLaunch(State, Timer)
    /\ \E path \in TimerPaths(u) : Becomes(Launch(State, Timer, path))

Operates(t) ==
    /\ CanRun(State, t)
    /\ Becomes(Operate(State, t))

InitLocks ==
    Starts([Empty({}, {}) EXCEPT
               !.sync = [prog |-> [t \in LockTasks |-> <<>>],
                         has |-> [t \in LockTasks |-> {}],
                         sent |-> {}]])

NextLocks ==
    \/ \E t \in Handlers : Command(t)
    \/ \E u \in LockUsers : Authenticates(u)
    \/ Accepts
    \/ \E u \in LockUsers : LostConnection(u)
    \/ \E u \in LockUsers : GraceTimer(u)
    \/ \E t \in LockTasks : Operates(t)

SpecLocks == InitLocks /\ [][NextLocks]_vars

\* ======================================================================
\* The client library (phira-mp-client): for each user a Client with the
\* task that calls its API, the dispatcher `process` its Stream's receive
\* task calls for every frame, and the mirror State.room.  The server side
\* runs whole handlers.
\* ======================================================================
\* Frames that may still wait in the receive path of a client when the
\* server takes up a further command.
MaxPending == 0

\* State.room of a client: None, or the mirrored ClientRoomState (its
\* locked, cycle and is_host fields)
NoMirror == [set |-> FALSE, locked |-> FALSE, cycle |-> FALSE, is_host |-> FALSE]

\* Client::new.  The fields:
\*   call      the calling task in rcall: "idle", "sent" (stream.send has
\*             returned), "waiting" (the slot is installed, the task waits on
\*             rx), "got" (rx has the result)
\*   kind, ok  the command of the call under way and its result
\*   slot      the cb_* slots that hold a sender
\*   room      State.room
\*   inbox     the frames on their way to the dispatcher, oldest first
\*   panicked  "no", or why the dispatcher panicked: "noslot" (the unwrap of
\*             an empty reply slot) or "noroom" (the unwrap of State.room)
NewClient ==
    [call |-> "idle", kind |-> "none", ok |-> FALSE, slot |-> {}, room |-> NoMirror,
     inbox |-> <<>>, panicked |-> "no"]

\* the frames the dispatcher does more with than push them to `messages`
Mirrored == {"LockRoom", "CycleRoom", "LeaveRoom", "ChangeHost",
             "ChangeState_SelectChart", "ChangeState_WaitingForReady",
             "ChangeState_Playing"}

\* the commands the user of a client sends: what the mirror of the client
\* allows (into a room from outside, the host's commands from the one whose
\* mirror says is_host)
ClientCalls(s, u) ==
    LET mine == s.client[u].room
    IN IF ~mine.set
       THEN {CreateCmd(GameRoom)} \cup {JoinCmd(GameRoom, monitor) : monitor \in BOOLEAN}
       ELSE {LeaveCmd, PlayedCmd(1, u)}
            \cup (IF mine.is_host
                  THEN {SelectCmd(1, TRUE), StartCmd}
                       \cup {LockCmd(lock) : lock \in BOOLEAN}
                       \cup {CycleCmd(cycle) : cycle \in BOOLEAN}
                  ELSE {ReadyCmd})

\* where process(user, cmd) starts on a command
FirstLabel(c) ==
    CASE c.kind = "CreateRoom" -> "create_guard"
      [] c.kind = "JoinRoom" -> "join_guard"
      [] OTHER -> "get_room"

\* rcall: self.stream.send(payload).await
RcallSend(s, u, c) ==
    [s EXCEPT !.client[u].call = "sent", !.client[u].kind = c.kind]

\* rcall: *cb.lock().await = Some(tx)
RcallInstall(s, u) ==
    [s EXCEPT !.client[u].call = "waiting", !.client[u].slot = @ \cup {s.client[u].kind}]

\* create_room, join_room: the ClientRoomState the client makes up
MirrorOf(s, u, kind) ==
    [set |-> TRUE, locked |-> FALSE, cycle |-> FALSE, is_host |-> kind = "CreateRoom"]

\* rcall returns; create_room, join_room and leave_room then set State.room
CallReturns(s, u) ==
    LET k == s.client[u].kind
        s1 == [s EXCEPT !.client[u].call = "idle", !.client[u].kind = "none",
                        !.client[u].ok = FALSE]
    IN IF ~s.client[u].ok THEN s1
       ELSE IF k \in {"CreateRoom", "JoinRoom"}
       THEN [s1 EXCEPT !.client[u].room = MirrorOf(s, u, k)]
       ELSE IF k = "LeaveRoom"
       THEN [s1 EXCEPT !.client[u].room = NoMirror]
       ELSE s1

\* the dispatcher panics: the receive task is gone and reads no more frames
Panics(s, u, why) ==
    [s EXCEPT !.client[u].panicked = why, !.client[u].inbox = <<>>]

\* cb(): cb.lock().await.take().unwrap().send(res)
Cb(s, u, f) ==
    IF f.cmd \notin s.client[u].slot
    THEN Panics(s, u, "noslot")
    ELSE [s EXCEPT !.client[u].slot = @ \ {f.cmd},
                   !.client[u].call = "got", !.client[u].ok = (f.arg = 1)]

\* process: ServerCommand::Message, ChangeState and ChangeHost, each with
\* state.room.write().await.as_mut().unwrap()
OnFrame(s, u, f) ==
    IF ~s.client[u].room.set
    THEN Panics(s, u, "noroom")
    ELSE CASE f.kind = "LockRoom" -> [s EXCEPT !.client[u].room.locked = (f.arg = 1)]
           [] f.kind = "CycleRoom" -> [s EXCEPT !.client[u].room.cycle = (f.arg = 1)]
           [] f.kind = "ChangeHost" -> [s EXCEPT !.client[u].room.is_host = (f.arg = 1)]
           [] OTHER -> s

\* process(state, cmd) on the oldest frame
Process(s, u) ==
    LET f == Head(s.client[u].inbox)
        s1 == [s EXCEPT !.client[u].inbox = Tail(@)]
    IN IF f.kind = "resp" THEN Cb(s1, u, f) ELSE OnFrame(s1, u, f)

\* what of a frame each of its recipients gets
Parcel(f) == [kind |-> f.kind, arg |-> f.arg, cmd |-> "none"]

\* the frames a handler has sent go to the clients, in the order sent
RECURSIVE Posted(_, _, _)
Posted(box, frames, to) ==
    IF frames = <<>> THEN box
    ELSE IF to = <<>> THEN
        IF Len(frames) = 1 THEN box
        ELSE Posted(box, Tail(frames), frames[2].to)
    ELSE LET f == Head(frames)
             v == Head(to)
             next == IF f.kind \in Mirrored /\ v \in DOMAIN box
                     THEN [box EXCEPT ![v] = Append(@, Parcel(f))]
                     ELSE box
         IN Posted(next, frames, Tail(to))

\* the inboxes once the handler of user u has run to s2: its broadcasts,
\* then its response through send_tx
Delivered(s2, u) ==
    LET frames == s2.out[u]
        box0 == [v \in DOMAIN s2.client |-> s2.client[v].inbox]
        box1 == IF frames = <<>> THEN box0 ELSE Posted(box0, frames, frames[1].to)
        resp == [kind |-> "resp", arg |-> BoolArg(s2.reply[u] = "ok"),
                 cmd |-> s2.cmd[u].kind]
    IN [box1 EXCEPT ![u] = Append(@, resp)]

\* the handler of user u has run to s2: its frames are on their way
Answered(s2, u) ==
    LET box == Delivered(s2, u)
    IN [s2 EXCEPT !.client = [v \in DOMAIN s2.client |->
                                IF s2.client[v].panicked # "no"
                                THEN s2.client[v]
                                ELSE [s2.client[v] EXCEPT !.inbox = box[v]]]]

\* the record of what the members of a round were sent is not kept here
Unrecorded(s) ==
    [s EXCEPT !.room = [r \in DOMAIN s.room |->
                          [s.room[r] EXCEPT !.told = {}, !.early = {}, !.cancelled = FALSE]]]

Fits(s) == \A v \in DOMAIN s.client : Len(s.client[v].inbox) <= MaxPending

\* ----------------------------------------------------------------- actions
\* The calling task of client u enters rcall with command c and sends it;
\* the session of u handles the command and answers.  (The handlers run one
\* after the other here, so a command is handled when it is sent.)
Calls(u, c) ==
    /\ client[u].call = "idle"
    /\ \A v \in DOMAIN client : client[v].panicked = "no"
    /\ CanServe(State, u)
    /\ Fits(State)
    /\ \E s2 \in Run(Begin(RcallSend(State, u, c), u, c, FirstLabel(c)), u) :
          LET s3 == Answered(s2, u)
          IN Becomes(Unrecorded(Rest(s3)))

Installs(u) ==
    /\ client[u].call = "sent"
    /\ Becomes(RcallInstall(State, u))

Dispatches(u) ==
    /\ client[u].inbox # <<>>
    /\ client[u].panicked = "no"
    /\ Becomes(Process(State, u))

Returns(u) ==
    /\ client[u].call = "got"
    /\ Becomes(CallReturns(State, u))

\* time::timeout(TIMEOUT, rx): with the dispatcher gone nothing answers
TimesOut(u) ==
    /\ client[u].call = "waiting"
    /\ client[u].panicked # "no"
    /\ Becomes([State EXCEPT !.client[u].call = "idle", !.client[u].kind = "none"])

\* every user is authenticated and in no room; every Client is new
InitClient ==
    Starts([Online(Players, {GameRoom}) EXCEPT
              !.client = Table([u \in Players |-> NewClient])])

NextClient ==
    \/ \E u \in Players : \E c \in ClientCalls(State, u) : Calls(u, c)
    \/ \E u \in Players : Installs(u)
    \/ \E u \in Players : Dispatches(u)
    \/ \E u \in Players : Returns(u)
    \/ \E u \in Players : TimesOut(u)

SpecClient == InitClient /\ [][NextClient]_vars

\* ===================================================================== claims
\* u is in one of the two lists of the room
Listed(rm, u) == u \in SeqToSet(rm.users) \cup SeqToSet(rm.monitors)

\* no handler, dangle or timer is under way
AllIdle == \A t \in Tasks : pc[t] = "idle"

\* C1: no user is listed, as participant or as monitor, in more than one
\* room of the registry.
C1_OneRoomPerUser ==
    \A u \in UserIds : \A r1 \in rooms : \A r2 \in rooms :
        Listed(room[r1], u) /\ Listed(room[r2], u) => r1 = r2

\* C2: whenever a user's room reference is set, that room's participant
\* list or monitor list contains the user.
C2_RoomListsUser ==
    \A u \in UserIds : uroom[u] # NoRoom => Listed(room[uroom[u]], u)

\* C3: once every handler has returned, the host of every room of the
\* registry is in that room's participant list.
C3_HostIsParticipant ==
    AllIdle => \A r \in rooms : room[r].host \in SeqToSet(room[r].users)

\* the reply is an Err
IsErr(res) == res \notin {"ok", "none"}

\* C4: no room has more than ROOM_MAX_USERS participants, whatever the
\* interleaving of the joins; a participant join that finds the list full is
\* answered with Err and changes no list, and a monitor join is always added.
C4_RoomCapacity ==
    /\ \A r \in DOMAIN room : Len(room[r].users) <= ROOM_MAX_USERS
    /\ \A t \in Tasks : pc[t] = "join_add" =>
         LET r == loc[t].room
             s2 == JoinAdd(State, t)
         IN /\ (~cmd[t].flag /\ Len(room[r].users) >= ROOM_MAX_USERS) =>
                  /\ IsErr(s2.reply[t]) /\ s2.pc[t] = "done"
                  /\ s2.room = room /\ s2.rooms = rooms /\ s2.uroom = uroom
            /\ (~cmd[t].flag /\ Len(room[r].users) < ROOM_MAX_USERS) =>
                  /\ s2.pc[t] = "join_announce"
                  /\ s2.room[r].users = Append(room[r].users, TUser(t))
            /\ cmd[t].flag =>
                  /\ s2.pc[t] = "join_announce"
                  /\ s2.room[r].monitors = Append(room[r].monitors, TUser(t))
                  /\ s2.room[r].users = room[r].users

\* a participant join is about to be refused by a full room while another
\* join has already taken the last seat and a monitor has been let in
C4_FullRoomRefuses ==
    \E t \in Tasks :
        /\ pc[t] = "join_add" /\ ~cmd[t].flag
        /\ Len(room[loc[t].room].users) = ROOM_MAX_USERS
        /\ IsErr(JoinAdd(State, t).reply[t])
        /\ \E t2 \in Tasks : t2 # t /\ pc[t2] \in {"join_announce", "join_set"}

\* C5: a CreateRoom that finds its id in the registry is answered with Err,
\* leaves the registry, the rooms and every user's room as they are and its
\* sender in no room; of two CreateRoom of one id under way, at most one has
\* inserted its room.
C5_CreateIdUnique ==
    /\ \A t \in Tasks : (pc[t] = "create_insert" /\ cmd[t].id \in rooms) =>
         LET s2 == CreateInsert(State, t)
         IN /\ IsErr(s2.reply[t]) /\ s2.pc[t] = "done"
            /\ s2.rooms = rooms /\ s2.room = room /\ s2.uroom = uroom
            /\ s2.uroom[TUser(t)] = NoRoom
            /\ s2.out[t] = <<>>
    /\ \A t1 \in Tasks : \A t2 \in Tasks :
         (pc[t1] = "create_set" /\ pc[t2] = "create_set" /\ loc[t1].room = loc[t2].room)
            => t1 = t2

\* two CreateRoom of one id are under way: one has inserted its room, the
\* other is about to find the id occupied
C5_SecondCreateRefused ==
    \E t1 \in Tasks : \E t2 \in Tasks :
        /\ pc[t1] = "create_insert" /\ pc[t2] = "create_set"
        /\ cmd[t1].id = loc[t2].room
        /\ IsErr(CreateInsert(State, t1).reply[t1])

\* ------------------------------------------------ claims about one handler
\* The shared state after the handler is the shared state before it.
NothingChanged(s2) ==
    /\ s2.rooms = rooms /\ s2.room = room /\ s2.users = users
    /\ s2.uroom = uroom /\ s2.umonitor = umonitor

\* the kinds of the frames a handler has broadcast
Kinds(frames) == {frames[i].kind : i \in 1..Len(frames)}

\* u is in a room in SelectChart, is its host, and a chart is selected
StartAllowed(u) ==
    /\ uroom[u] # NoRoom
    /\ room[uroom[u]].state = "SelectChart"
    /\ CheckHost(room[uroom[u]], u)
    /\ ~NoChart(room[uroom[u]])

\* C6: a RequestStart writes WaitForReady only to a room in SelectChart whose
\* host is the sender and that has a chart, and the started set it writes is
\* exactly the host's id; a RequestStart of a user that is not the host, or
\* with no chart, or in another state, is answered with Err and changes
\* nothing.
C6_RequestStart ==
    \A u \in UserIds : CanServe(State, u) =>
        LET s0 == Serving(u, StartCmd, "get_room")
        IN /\ \A v \in Visited(s0, u) :
                /\ v.pc[u] = "start_set" =>
                     LET r == v.loc[u].room
                         w == StartSet(v, u)
                     IN /\ StartAllowed(u)
                        /\ v.room[r].state = "SelectChart"
                        /\ w.room[r].state = "WaitForReady"
                        /\ w.room[r].started = {w.room[r].host}
                        /\ w.room[r].host = u
                /\ v.room # room => StartAllowed(u)
           /\ StartAllowed(u) =>
                \A s2 \in Run(s0, u) :
                    /\ s2.reply[u] = "ok"
                    /\ \E v \in Visited(s0, u) : v.pc[u] = "start_set"
           /\ ~StartAllowed(u) =>
                \A s2 \in Run(s0, u) : IsErr(s2.reply[u]) /\ NothingChanged(s2)

\* the host of a room with another member is served a RequestStart, and the
\* room is left waiting with only the host ready
C6_HostStarts ==
    \E u \in UserIds :
        /\ CanServe(State, u) /\ StartAllowed(u)
        /\ Len(room[uroom[u]].users) > 1
        /\ \E s2 \in Run(Serving(u, StartCmd, "get_room"), u) :
              /\ s2.room[uroom[u]].state = "WaitForReady"
              /\ s2.room[uroom[u]].started = {u}

\* C7: whenever a handler is about to write Playing over WaitForReady, the
\* number of ids in started is the number of participants plus the number of
\* monitors.
C7_StartedCountsMembers ==
    \A u \in UserIds : CanServe(State, u) =>
        \A c \in {StartCmd, ReadyCmd, LeaveCmd} :
            \A v \in Visited(Serving(u, c, "get_room"), u) :
                v.pc[u] = "car_start_set" =>
                    LET rm == v.room[v.loc[u].room]
                    IN /\ rm.state = "WaitForReady"
                       /\ Cardinality(rm.started) = Len(rm.users) + Len(rm.monitors)

\* the commands that can end a round
RoundCalls(u) == {AbortCmd, LeaveCmd} \cup {PlayedCmd(id, u) : id \in RecordIds}

\* C8: a handler writes SelectChart over Playing only when every participant
\* has a result or has aborted, and once every handler has returned no room
\* of the registry is in Playing with every participant accounted for.
C8_RoundEnds ==
    /\ \A u \in UserIds : CanServe(State, u) =>
         \A c \in RoundCalls(u) :
             \A v \in Visited(Serving(u, c, "get_room"), u) :
                 v.pc[u] = "car_end_set" =>
                     LET rm == v.room[v.loc[u].room]
                     IN rm.state = "Playing" /\ AllPlayed(rm)
    /\ AllIdle => \A r \in rooms : room[r].state = "Playing" => ~AllPlayed(room[r])

\* C9: Ready and CancelReady outside WaitForReady, and Played and Abort
\* outside Playing, are answered with Err and change nothing.
C9_WrongStateRefused ==
    \A u \in UserIds : (CanServe(State, u) /\ uroom[u] # NoRoom) =>
        /\ room[uroom[u]].state # "WaitForReady" =>
             \A c \in {ReadyCmd, CancelCmd} :
                 \A s2 \in Run(Serving(u, c, "get_room"), u) :
                     IsErr(s2.reply[u]) /\ NothingChanged(s2)
        /\ room[uroom[u]].state # "Playing" =>
             \A c \in {AbortCmd} \cup {PlayedCmd(id, u) : id \in RecordIds} :
                 \A s2 \in Run(Serving(u, c, "get_room"), u) :
                     IsErr(s2.reply[u]) /\ NothingChanged(s2)

\* the three errors of Played that C10 names
PlayedErrors == {"err_invalid_record", "err_aborted", "err_already_uploaded"}

\* C10: a Played answered with one of its errors leaves results and aborted
\* as they were and broadcasts no Played frame.
C10_FailedPlayedChangesNothing ==
    \A u \in UserIds : (CanServe(State, u) /\ uroom[u] # NoRoom) =>
        \A id \in RecordIds : \A player \in UserIds :
            \A s2 \in Run(Serving(u, PlayedCmd(id, player), "get_room"), u) :
                s2.reply[u] \in PlayedErrors =>
                    /\ s2.room[uroom[u]].results = room[uroom[u]].results
                    /\ s2.room[uroom[u]].aborted = room[uroom[u]].aborted
                    /\ "Played" \notin Kinds(s2.out[u])

\* ------------------------------------------------------- host-only commands
\* the commands the code guards with check_host
HostCalls == {LockCmd(b) : b \in BOOLEAN} \cup {CycleCmd(b) : b \in BOOLEAN}
             \cup {SelectCmd(id, found) : id \in ChartIds, found \in BOOLEAN}
             \cup {StartCmd}

\* every command of a room member, with the label its handler starts at
MemberCalls(u) ==
    {<<c, "get_room">> : c \in HostCalls \cup {LeaveCmd, ReadyCmd, CancelCmd, AbortCmd}
                                         \cup {PlayedCmd(id, u) : id \in RecordIds}}
    \cup {<<CreateCmd(id), "create_guard">> : id \in DOMAIN room}
    \cup {<<JoinCmd(id, b), "join_guard">> : id \in DOMAIN room, b \in BOOLEAN}

\* what of room r a handler that ran from the current state to s2 changed
ChangedBy(s2, r) ==
    {what \in {"locked", "cycle", "chart", "start"} :
        CASE what = "locked" -> s2.room[r].locked # room[r].locked
          [] what = "cycle" -> s2.room[r].cycle # room[r].cycle
          [] what = "chart" -> s2.room[r].chart # room[r].chart
          [] what = "start" -> room[r].state = "SelectChart"
                               /\ s2.room[r].state # "SelectChart"}

\* the command that may change each of them
Changer(what) ==
    CASE what = "locked" -> "LockRoom"
      [] what = "cycle" -> "CycleRoom"
      [] what = "chart" -> "SelectChart"
      [] what = "start" -> "RequestStart"

\* C11: LockRoom, CycleRoom, SelectChart and RequestStart of a member that is
\* not the host are answered with Err and change nothing, and whatever
\* handler changes locked, cycle, the chart or takes the room out of
\* SelectChart is the handler of that command sent by the host.
C11_HostOnly ==
    /\ \A u \in UserIds : CanServe(State, u) =>
        /\ (uroom[u] # NoRoom /\ room[uroom[u]].host # u) =>
              \A c \in HostCalls :
                  \A s2 \in Run(Serving(u, c, "get_room"), u) :
                      IsErr(s2.reply[u]) /\ NothingChanged(s2)
        /\ \A call \in MemberCalls(u) :
              \A s2 \in Run(Serving(u, call[1], call[2]), u) :
                  \A r \in rooms : \A what \in ChangedBy(s2, r) :
                      /\ room[r].host = u
                      /\ uroom[u] = r
                      /\ call[1].kind = Changer(what)
    /\ \A u \in UserIds : CanLose(State, u) =>
          \A s2 \in Run(Dangling(u), SysTask(u)) : \A r \in rooms : ChangedBy(s2, r) = {}
    /\ \A u \in UserIds : CanExpire(State, u) =>
          \A s2 \in Run(Expiring(u), SysTask(u)) : \A r \in rooms : ChangedBy(s2, r) = {}

C11_GuestRefused ==
    \E u \in UserIds :
        /\ CanServe(State, u) /\ uroom[u] # NoRoom
        /\ room[uroom[u]].host \in UserIds \ {u}
        /\ room[uroom[u]].chart # 0
        /\ room[uroom[u]].state = "SelectChart"
        /\ \A c \in HostCalls :
               \E s2 \in Run(Serving(u, c, "get_room"), u) : s2.reply[u] = "err_only_host"

\* C12: a JoinRoom, as participant or as monitor, to a room whose locked
\* flag is true is answered with Err and changes neither the room (its
\* lists, its live flag) nor the requester (room reference, monitor flag).
C12_LockedRoomRefuses ==
    \A u \in UserIds : CanServe(State, u) =>
        \A id \in rooms : room[id].locked =>
            \A monitor \in BOOLEAN :
                \A s2 \in Run(Serving(u, JoinCmd(id, monitor), "join_guard"), u) :
                    /\ IsErr(s2.reply[u])
                    /\ s2.room[id].users = room[id].users
                    /\ s2.room[id].monitors = room[id].monitors
                    /\ s2.room[id].live = room[id].live
                    /\ s2.uroom[u] = uroom[u]
                    /\ s2.umonitor[u] = umonitor[u]
                    /\ NothingChanged(s2)

C12_LockedJoinRefused ==
    \E u \in UserIds : \E id \in rooms :
        /\ CanServe(State, u) /\ uroom[u] = NoRoom
        /\ room[id].locked /\ room[id].state = "SelectChart"
        /\ \A monitor \in BOOLEAN :
               \E s2 \in Run(Serving(u, JoinCmd(id, monitor), "join_guard"), u) :
                   s2.reply[u] = "err_join_room_locked"

\* a step appends an entry to the participant list or the monitor list of r
Grows(r) ==
    \/ Len(room'[r].users) > Len(room[r].users)
    \/ Len(room'[r].monitors) > Len(room[r].monitors)

\* C13: no step adds a user to the participant list or the monitor list of
\* a room whose state is WaitForReady or Playing.
C13_NoJoinAfterStart ==
    [][\A r \in DOMAIN room :
          Grows(r) => room[r].state \notin {"WaitForReady", "Playing"}]_vars

\* C14: a room enters the registry with live false; while it is registered,
\* live turns true in the step in which a monitor is added to it and in no
\* other, every monitor join leaves it true, and live never turns false.
C14_LiveIsSticky ==
    [][\A r \in DOMAIN room :
          /\ (r \notin rooms /\ r \in rooms') => ~room'[r].live
          /\ (r \in rooms /\ r \in rooms') =>
                /\ room[r].live => room'[r].live
                /\ (~room[r].live /\ room'[r].live) =>
                       Len(room'[r].monitors) > Len(room[r].monitors)
                /\ Len(room'[r].monitors) > Len(room[r].monitors) => room'[r].live]_vars

C14_LiveAfterMonitorLeft ==
    \E r \in rooms :
        /\ room[r].live
        /\ room[r].monitors = <<>>
        /\ Len(room[r].users) > 1

\* C15: every Ping a connection receives is answered with a Pong, whatever
\* the phase of the connection: before authentication, after a successful
\* and after a failed authentication.
C15_PingAnswered ==
    \A c \in Conns :
        CanReceive(State, c) => HandlePing(State, c).conn[c].answer = <<Pong>>

\* a connection on which nothing was received yet
Fresh(c) ==
    /\ CanReceive(State, c)
    /\ conn[c].waiting /\ ~conn[c].panicked /\ conn[c].tx = "some"

\* the identity service knows the token's user, and the user can be attached
Attachable(tok) ==
    /\ TokenAccepted(tok)
    /\ tok.id \in users \/ tok.id \in GoneUsers(State)

\* C16: a Ping does not advance the authentication phase: a connection that
\* receives a Ping and then a valid Authenticate is authenticated and
\* answered Authenticate(Ok), exactly as without the Ping.
C16_PingKeepsPhase ==
    \A c \in Conns, tok \in Tokens :
        (Fresh(c) /\ Attachable(tok)) =>
            LET s2 == HandleAuth(HandlePing(State, c), c, tok)
            IN /\ Kinds(s2.conn[c].answer) = {"Authenticate_Ok"}
               /\ ~s2.conn[c].waiting
               /\ s2 = HandleAuth(State, c, tok)

\* the handler calls a connection can still get
LaterCalls(s, c) ==
    {HandlePing(s, c), HandleEarly(s, c)} \cup {HandleAuth(s, c, tok) : tok \in Tokens}

\* C17: an Authenticate with a token that is not 32 bytes long or that the
\* identity service rejects is answered Authenticate(Err), creates and
\* re-attaches no User, reports the connection on the lost-connection
\* channel, and no later command of the connection changes a user or a room.
C17_BadTokenRefused ==
    \A c \in Conns, tok \in Tokens :
        (CanReceive(State, c) /\ conn[c].waiting /\ ~conn[c].panicked
                              /\ ~TokenAccepted(tok)) =>
            LET s2 == HandleAuth(State, c, tok)
            IN /\ Kinds(s2.conn[c].answer) = {"Authenticate_Err"}
               /\ NothingChanged(s2)
               /\ s2.usession = usession /\ s2.dmark = dmark
               /\ s2.lost = Append(lost, c)
               /\ \A s3 \in LaterCalls(s2, c) :
                     /\ NothingChanged(s3)
                     /\ s3.usession = usession /\ s3.dmark = dmark

\* C18: an Authenticate that succeeds for an id with a User in the registry
\* leaves the registry, the User's room membership and the room as they
\* were, answers with the room's ClientRoomState, and broadcasts nothing.
C18_ReattachKeepsRoom ==
    \A c \in Conns, u \in Accounts :
        (Fresh(c) /\ u \in users) =>
            LET s2 == HandleAuth(State, c, [len32 |-> TRUE, id |-> u])
            IN /\ NothingChanged(s2)
               /\ s2.usession[u] /\ ~s2.dmark[u]
               /\ s2.conn[c].user = u /\ s2.conn[c].listed /\ s2.conn[c].current
               /\ s2.conn[c].answer =
                     <<Answer("Authenticate_Ok", UserInfo(State, u), ClientState(State, u))>>
               /\ s2.out = out

\* a connection was re-attached to a user in a room
C18_Reattached ==
    \E c \in Conns :
        /\ conn[c].st = "open" /\ conn[c].current
        /\ Kinds(conn[c].answer) = {"Authenticate_Ok"}
        /\ conn[c].answer[1].state.id # NoRoom
        /\ uroom[conn[c].user] = conn[c].answer[1].state.id

\* the heartbeat task has reported connection c, whose Session is registered
Silent(c) == conn[c].watchdog /\ conn[c].listed

\* the Session of connection c was taken off the registry once, and its
\* user dangled once unless a later session had taken the user over
ReapedOnce(c) ==
    /\ ~conn[c].listed /\ conn[c].reaped = 1
    /\ conn[c].dangled = 1 \/ (~conn[c].current /\ conn[c].dangled = 0)

\* C19: a session the server hears nothing from for the heartbeat timeout
\* is reaped exactly once: it leaves the session registry and its user is
\* dangled one time, never twice and never not at all, however often its
\* id is reported on the lost-connection channel.
C19_SilentSessionReaped ==
    /\ [](\A c \in Conns : conn[c].reaped <= 1 /\ conn[c].dangled <= 1)
    /\ \A c \in Conns : Silent(c) ~> ReapedOnce(c)

\* C20: when the grace timer of a user expires without a new session, the
\* user leaves the user registry, in a room or not; a user in a room leaves
\* the room by on_user_leave.
C20_ExpiryRemovesUser ==
    \A u \in UserIds :
        CanExpire(State, u) =>
            \A s2 \in Run(Expiring(u), SysTask(u)) :
                /\ u \notin s2.users
                /\ uroom[u] # NoRoom =>
                      /\ s2.uroom[u] = NoRoom
                      /\ uroom[u] \in s2.rooms =>
                            u \notin SeqToSet(s2.room[uroom[u]].users \o s2.room[uroom[u]].monitors)

\* C21: when the session of a user whose room is Playing is reaped, the
\* user leaves the registry and the room at once, no grace timer is armed,
\* and the completion check has run: a room whose remaining participants
\* are all accounted for is no longer Playing.
C21_LostWhilePlaying ==
    \A u \in UserIds :
        (CanLose(State, u) /\ LeavesAtOnce(State, u)) =>
            \A s2 \in Run(Dangling(u), SysTask(u)) :
                LET r == uroom[u]
                IN /\ u \notin s2.users
                   /\ ~s2.dmark[u]
                   /\ s2.uroom[u] = NoRoom
                   /\ r \in s2.rooms =>
                         /\ u \notin SeqToSet(s2.room[r].users \o s2.room[r].monitors)
                         /\ AllPlayed(s2.room[r]) => s2.room[r].state # "Playing"

\* the reaper takes the Session of connection c off the registry
ReapedNow(c) == conn[c].listed /\ ~conn'[c].listed

\* C22: the reaper dangles the user of a session only if the session is
\* still the user's current one: when it removes a session that a later
\* authentication has superseded, no grace timer is armed and the user
\* leaves neither the registry nor its room.
C22_SupersededNotDangled ==
    [][\A c \in Conns :
          /\ conn'[c].dangled > conn[c].dangled => (ReapedNow(c) /\ conn[c].current)
          /\ (ReapedNow(c) /\ ~conn[c].current) =>
                /\ conn'[c].dangled = conn[c].dangled
                /\ users' = users /\ dmark' = dmark /\ usession' = usession
                /\ uroom' = uroom /\ room' = room /\ rooms' = rooms]_vars

\* the participants of u's room other than u
Others(u) == SeqToSet(room[uroom[u]].users) \ {u}

\* the ChangeHost frames among the frames a task has sent
HostFrames(frames) == {i \in 1..Len(frames) : frames[i].kind = "ChangeHost"}

\* on_user_leave of host u, run by task t from s0, hands the room to one of
\* the others and tells the room and the new host, and nobody else
HandsOver(s0, t, u) ==
    \A v \in Visited(s0, t) :
        /\ v.pc[t] # "oul_drop"
        /\ v.pc[t] = "car" =>
              LET rm == v.room[uroom[u]]
                  frames == v.out[t]
              IN /\ rm.host \in Others(u)
                 /\ rm.host \in SeqToSet(rm.users)
                 /\ rm.host \notin SeqToSet(rm.monitors)
                 /\ \E i \in 1..Len(frames) :
                       /\ frames[i].kind = "NewHost" /\ frames[i].arg = rm.host
                       /\ frames[i].to = Recipients(rm)
                 /\ HostFrames(frames) # {}
                 /\ \A i \in HostFrames(frames) :
                       frames[i].arg = 1 /\ frames[i].to = <<rm.host>>

\* C23: when the host leaves a room that has other participants than
\* monitors, the new host is one of them (not the leaver, not a monitor),
\* NewHost naming it is broadcast, and ChangeHost(true) goes to it alone.
C23_NewHostOnLeave ==
    \A u \in UserIds :
        (uroom[u] # NoRoom /\ room[uroom[u]].host = u /\ Others(u) # {}) =>
            /\ CanServe(State, u) => HandsOver(Serving(u, LeaveCmd, "get_room"), u, u)
            /\ (CanLose(State, u) /\ LeavesAtOnce(State, u)) =>
                  HandsOver(Dangling(u), SysTask(u), u)
            /\ CanExpire(State, u) => HandsOver(Expiring(u), SysTask(u), u)

\* the participant after h in insertion order, the first one after the last
Follows(list, h) ==
    LET i == CHOOSE k \in 1..Len(list) : list[k] = h /\ \A j \in 1..(k - 1) : list[j] # h
    IN IF i = Len(list) THEN list[1] ELSE list[i + 1]

\* the host a room must have once its round is over, rm being the room when
\* SelectChart has just been written
HostAfterRound(rm) == IF rm.cycle THEN Follows(rm.users, rm.host) ELSE rm.host

\* the rounds task t ends when it runs from s0: the state in which
\* SelectChart has just been written, with the states the run ends in
RoundEnds(s0, t) ==
    {e \in Visited(s0, t) \X Visited(s0, t) :
         e[1].pc[t] = "car_cycle" /\ e[2] \in Run(e[1], t)}

\* every round that t ends leaves the host the rule names
RotatesHost(s0, t) ==
    \A e \in RoundEnds(s0, t) :
        LET rm == e[1].room[e[1].loc[t].room]
        IN rm.host \in SeqToSet(rm.users) =>
              e[2].room[e[1].loc[t].room].host = HostAfterRound(rm)

\* C24: at the end of a round the host of a room with cycle set becomes the
\* participant that follows the old host in insertion order, the first one
\* after the last; with cycle unset the host stays.
C24_CycleRotatesHost ==
    \A u \in UserIds :
        /\ CanServe(State, u) =>
              \A c \in RoundCalls(u) : RotatesHost(Serving(u, c, "get_room"), u)
        /\ CanLose(State, u) => RotatesHost(Dangling(u), SysTask(u))
        /\ CanExpire(State, u) => RotatesHost(Expiring(u), SysTask(u))

\* a round has ended in a room with cycle set whose host was the last of
\* several participants, and the first one is the host now
C24_HostWrapped ==
    \E u \in UserIds : CanServe(State, u) /\
        \E c \in RoundCalls(u) : \E e \in RoundEnds(Serving(u, c, "get_room"), u) :
            LET rm == e[1].room[e[1].loc[u].room]
            IN /\ rm.cycle /\ Len(rm.users) > 1
               /\ rm.host = rm.users[Len(rm.users)]
               /\ e[2].room[e[1].loc[u].room].host = rm.users[1]

\* the place of a frame in the order C25 gives for the end of a round
Rank(f) ==
    CASE f.kind = "Played" -> 1
      [] f.kind = "GameEnd" -> 2
      [] f.kind = "ChangeHost" /\ f.arg = 0 -> 3
      [] f.kind = "NewHost" -> 4
      [] f.kind = "ChangeHost" /\ f.arg = 1 -> 5
      [] f.kind = "ChangeState_SelectChart" -> 6
      [] OTHER -> 0

\* the frames of a run that reach member m, in the order they were sent
Reaching(frames, m) == SelectSeq(frames, LAMBDA f : m \in SeqToSet(f.to))

\* from GameEnd on, the frames are in the order of their ranks, and no
\* Played comes after GameEnd
InRoundEndOrder(q) ==
    \A i \in 1..Len(q) : q[i].kind = "GameEnd" =>
        \A j \in i..Len(q) : \A k \in j..Len(q) :
            /\ Rank(q[j]) # 0 /\ Rank(q[k]) # 0
            /\ Rank(q[j]) <= Rank(q[k])

\* C25: when a round ends in a room with cycle set, each member gets the
\* frames in this order: the Played messages, GameEnd, ChangeHost(false)
\* (the old host only), NewHost, ChangeHost(true) (the new host only),
\* ChangeState(SelectChart).
C25_RoundEndOrder ==
    \A u \in UserIds : CanServe(State, u) =>
        \A c \in RoundCalls(u) :
            \A s2 \in Run(Serving(u, c, "get_room"), u) :
                \A m \in UserIds : InRoundEndOrder(Reaching(s2.out[u], m))

\* C26: no member of a room is sent ChangeState(Playing) unless it was sent
\* Message::StartPlaying before, in the same round, whatever the
\* interleaving of the handlers that broadcast the room's state.
C26_StartPlayingFirst ==
    \A r \in DOMAIN room : room[r].early = {}

\* C27: the payload of a frame whose length prefix encodes more than 2 MiB,
\* prefixes of more than 32 payload bits included, never goes to the handler.
C27_OversizeRejected ==
    ~wire.bigpassed

\* once the receive task has failed the send task writes no frame
SendStopsWithRecv == ~wire.latewrite

\* once a write has failed the receive task passes no frame to the handler
RecvStopsWithSend == ~wire.latedispatch

\* C28: a failure in either direction of a Stream stops both: no frame is
\* written after the receive task has failed, none is dispatched after a
\* write has failed.
C28_FailureStopsBoth ==
    SendStopsWithRecv /\ RecvStopsWithSend

\* the bytes of the chain an input starts with carry a 1-bit past bit 31
Overlong(input) ==
    \E i \in DOMAIN input :
        /\ \A j \in 1..(i - 1) : More(input[j])
        /\ \E k \in Bits(input[i]) : k + 7 * (i - 1) >= 32

\* C29: BinaryReader::uleb returns a decode error for every input whose
\* encoding carries more than 32 payload bits: it does not panic and does
\* not return a value.
C29_UlebRejectsOverlong ==
    (wire.recv = "read" /\ Overlong(wire.input)) => wire.result.status = "error"

\* C30: once the host's CancelReady has returned a room to SelectChart, the
\* room is not in Playing before a later RequestStart has succeeded.
C30_CancelHoldsUntilStart ==
    [][\A r \in DOMAIN room : room[r].cancelled => room'[r].state # "Playing"]_vars

\* user u is in neither list of the room r it was in, if s still has the room
Delisted(s, r, u) == r \in s.rooms => ~Listed(s.room[r], u)

\* C31: once on_user_leave has run for a member of a room, by LeaveRoom, by
\* the grace timer or by a disconnect during play, the user is in neither
\* the participant list nor the monitor list of that room.
C31_LeaverDelisted ==
    \A u \in UserIds : uroom[u] # NoRoom =>
        /\ CanServe(State, u) =>
              \A s2 \in Run(Serving(u, LeaveCmd, "get_room"), u) :
                  Delisted(s2, uroom[u], u)
        /\ CanExpire(State, u) =>
              \A s2 \in Run(Expiring(u), SysTask(u)) : Delisted(s2, uroom[u], u)
        /\ (CanLose(State, u) /\ LeavesAtOnce(State, u)) =>
              \A s2 \in Run(Dangling(u), SysTask(u)) : Delisted(s2, uroom[u], u)

\* the grace timer of user u takes a step
TimerSteps(u) ==
    /\ cmd[SysTask(u)].kind = "Expire"
    /\ pc'[SysTask(u)] # pc[SysTask(u)]
    /\ pc[SysTask(u)] # "idle"

\* C32: a step of the grace timer of a user that a new session has taken
\* over leaves the user in the user registry, in its room and in the lists
\* of its room.
C32_TimerSparesReattached ==
    [][\A u \in UserIds :
          (usession[u] /\ u \in users /\ TimerSteps(u)) =>
              /\ u \in users'
              /\ uroom'[u] = uroom[u]
              /\ \A r \in rooms : Listed(room[r], u) => (r \in rooms' /\ Listed(room'[r], u))]_vars

\* the tasks that a task of the set waits for, directly or through others
RECURSIVE WaitedFor(_, _)
WaitedFor(set, n) ==
    LET direct == UNION {WaitsFor(State, t) : t \in set}
    IN IF n = 0 \/ direct = {} THEN {}
       ELSE direct \cup WaitedFor(direct, n - 1)

\* Session::new waits for the client's first command
AwaitsClient(t) ==
    /\ t = Acceptor
    /\ t \in Running(State)
    /\ NextOp(State, t) = Await("tx")
    /\ Senders(State, "tx") = {}

Unanswered(c) == conn[c].st = "accepting" /\ conn[c].watchdog

\* C34: a connection that was accepted and has not authenticated holds up
\* neither the accept loop nor the reaper: such a connection, silent for the
\* heartbeat timeout, is disconnected (its Session::new returns), and a
\* session reported lost leaves the registry, whatever the clients send.
C34_PendingHoldsNothingUp ==
    /\ \A c \in Conns : Unanswered(c) ~> conn[c].st # "accepting"
    /\ \A c \in Conns : Silent(c) ~> ~conn[c].listed

\* C35: the room of every user, if set, is a room of the registry; a room
\* taken off the registry is the room of no user, monitors included.
C35_RoomRegistered ==
    \A u \in DOMAIN uroom : uroom[u] # NoRoom => uroom[u] \in rooms

\* C36: the dispatcher of no client finds the reply slot of a response
\* empty: the slot of an rcall is installed before its response is
\* dispatched, however the calling task and the receive task interleave.
C36_SlotInstalled == \A u \in DOMAIN client : client[u].panicked # "noslot"

\* no call is under way and no frame is on its way, to the server or to a
\* client
Quiet ==
    \A u \in DOMAIN client :
        client[u].call = "idle" /\ client[u].inbox = <<>>

\* C37: with every frame delivered, the mirror of each member of a room has
\* the room's locked and cycle flags, whether the member was in the room
\* when the host set them or joined later.
C37_FlagsMirrored ==
    Quiet =>
        \A u \in DOMAIN client :
            uroom[u] # NoRoom =>
                /\ client[u].room.set
                /\ client[u].room.locked = room[uroom[u]].locked
                /\ client[u].room.cycle = room[uroom[u]].cycle

\* the members of room r whose mirror says is_host
MirrorHosts(r) ==
    {u \in DOMAIN client : uroom[u] = r /\ client[u].room.set /\ client[u].room.is_host}

\* C38: with every frame delivered, in each room exactly one member's
\* mirror says is_host, and that member is the host the server has.
C38_OneMirroredHost ==
    Quiet => \A r \in rooms : MirrorHosts(r) = {room[r].host}

\* task t has broadcast Message::GameEnd and has not returned yet: it is in
\* check_all_ready, past the send
SentGameEnd(t) ==
    pc[t] \in {"car_end_set", "car_cycle", "car_cycle_pick", "car_cycle_set",
               "car_cycle_send", "car_end_notify"}

\* task t broadcasts Message::GameEnd in this step
SendsGameEnd(t) == pc[t] = "car_end_send" /\ pc'[t] = "car_end_set"

\* task t stores the next host of the cycle in this step
SetsCycleHost(t) == pc[t] = "car_cycle_set" /\ pc'[t] = "car_cycle_send"

\* C39: a round ends once.  GameEnd is broadcast while the room is in
\* Playing and no other task has broadcast it for the round; and the host a
\* cycle replaces is the host the round ended with, not one that another
\* handler has stored since, so that the host moves one position -- however
\* the handlers of the last Played, Abort and leave interleave.
C39_RoundEndsOnce ==
    [][\A t \in DOMAIN pc :
          /\ SendsGameEnd(t) =>
                /\ room[loc[t].room].state = "Playing"
                /\ \A t2 \in DOMAIN pc \ {t} : ~SentGameEnd(t2)
          /\ SetsCycleHost(t) => room[loc[t].room].host = loc[t].host
      ]_vars

\* C40: while a room is in Playing no user id is both a key of results and
\* a member of aborted, in whatever order and interleaving the Played and
\* Abort commands come.
C40_ResultsAbortedDisjoint ==
    \A r \in DOMAIN room :
        room[r].state = "Playing" =>
            \A u \in DOMAIN room[r].results :
                ~(room[r].results[u] # 0 /\ u \in room[r].aborted)

\* a user who has aborted the round has sent Played, and the handler is
\* about to take state.write()
C40_PlayedAfterAbort ==
    \E u \in UserIds :
        /\ pc[u] = "played_insert"
        /\ uroom[u] # NoRoom
        /\ room[uroom[u]].state = "Playing"
        /\ u \in room[uroom[u]].aborted
====
